---- MODULE Spec2Model ----
(***************************************************************************)
(* A model of pyflink/table/table_environment.py: TableEnvironment's       *)
(* from_elements / _from_elements / from_pandas (conversion of local       *)
(* records into a table through a temporary file) and the resolution of    *)
(* object paths against the current catalog and database (from_path,       *)
(* use_catalog, use_database).                                             *)
(*                                                                         *)
(* Strings that are parsed are sequences of lexical pieces: the dot and    *)
(* the backtick are the two special pieces (Dot, Tick), every other piece  *)
(* is a run of identifier characters.                                      *)
(***************************************************************************)
EXTENDS Integers, Sequences, FiniteSets, TLC

VARIABLES
    pc,             \* position of the one caller: "idle" or a position in a call
    curCatalog,     \* the session's current catalog (remote state)
    curDatabase,    \* the session's current database (remote state)
    path,           \* argument of the from_path call in progress
    resolved,       \* outcome of the last from_path: [status, catalog, database, object]
    input,          \* from_elements: the items of the Iterable given as elements
    single_pass,    \* from_elements: whether that Iterable can be iterated only once
    elements,       \* from_elements: the local variable elements
    schema,         \* from_elements: the schema argument as given by the caller
    verify_schema,  \* from_elements: the verify_schema argument
    rowSchema,      \* from_elements: the local schema after lines 1409-1438
    idx,            \* from_elements: index of the element the list comprehension is at
    verified,       \* from_elements: indices handed to the type verifier so far
    rows,           \* from_elements: rows produced by to_sql_type so far
    inferCalls,     \* from_elements: calls of _infer_schema_from_data in this call
    verifierBuilt,  \* from_elements: whether _create_type_verifier was called
    outcome,        \* outcome of the call in progress or just finished
    handed,         \* what from_elements passed to _from_elements, or NotHanded
    tmpDirs,        \* temporary directories that exist on disk
    tmpFiles,       \* temporary files that exist on disk
    openFiles,      \* temporary files with an open handle
    written,        \* temporary files that hold a complete serialized batch
    callDirs,       \* directories created by the call in progress / just finished
    callFiles,      \* files created by the call in progress / just finished
    remoteLog,      \* remote (gateway) calls issued by the call in progress
    ncalls,         \* number of calls started (bounds the run)
    pdfIsFrame,     \* from_pandas: whether pdf is a pandas DataFrame
    pdfLen,         \* from_pandas: len(pdf)
    pdfCols,        \* from_pandas: the number of columns of pdf
    pdSchema,       \* from_pandas: the schema argument
    splits_num,     \* from_pandas: the splits_num argument
    result_type,    \* from_pandas: the row type of lines 1527-1543
    slices,         \* from_pandas: the lengths of pdf_slices
    acc,            \* inference: the schema merged so far (reduce accumulator)
    seen,           \* inference: per column, the set of value types fed so far
    nrecs,          \* inference: number of records fed so far
    prev,           \* the from_elements call before the one in progress, when
                    \* the caller repeats a call
    serRows,        \* serialize: the converted rows given to serialize
    serArity,       \* serialize: the number of fields of the row schema
    batch_size,     \* serialize: the number of rows written as one batch
    serNext,        \* serialize: index of the next row to take
    buffer,         \* serialize: rows taken and not yet written
    sink,           \* the cells written to the sink so far
    readPos,        \* deserialize: the next cell to read
    decoded,        \* deserialize: the rows read back so far
    cpc,            \* concurrent callers: the position of each caller
    crows,          \* concurrent callers: the rows each caller's call writes
    cname,          \* concurrent callers: the temporary file of each call, 0: none
    disk,           \* concurrent callers: the temporary files on disk and
                    \* what they hold
    cread,          \* concurrent callers: what the remote side read for each
    cout,           \* concurrent callers: the outcome of each call
    createArgs,     \* StreamTableEnvironment.create: which arguments are given
    sessionOp,      \* the last use_catalog or use_database call and its result
    t_config,       \* the configuration of the table config: key -> string
    j_config,       \* the configuration of the execution environment
    execOp,         \* the remote call of the execute_sql / execute call in
                    \* progress
    merged,         \* for each key merged since the configurations were last
                    \* set from outside: the entries after the merge, and how
                    \* many merges there were
    added           \* the paths given to add_python_file and the archives
                    \* given to add_python_archive, in call order

vars == <<pc, curCatalog, curDatabase, path, resolved, input, single_pass,
          elements, schema,
          verify_schema, rowSchema, idx, verified, rows, inferCalls,
          verifierBuilt, outcome, handed, tmpDirs, tmpFiles, openFiles,
          written, callDirs, callFiles, remoteLog, ncalls, pdfIsFrame, pdfLen,
          pdfCols, pdSchema, splits_num, result_type, slices, acc, seen, nrecs, prev, serRows, serArity, batch_size, serNext, buffer,
          sink, readPos, decoded, cpc, crows, cname, disk, cread, cout,
          createArgs, sessionOp, t_config, j_config, execOp, merged, added>>

pathVars == <<curCatalog, curDatabase, path, resolved>>
elemVars == <<input, single_pass, elements, schema, verify_schema, rowSchema, idx, verified, rows,
              inferCalls, verifierBuilt, handed>>
fsVars == <<tmpDirs, tmpFiles, openFiles, written, callDirs, callFiles>>
pandasVars == <<pdfIsFrame, pdfLen, pdfCols, pdSchema, splits_num, result_type,
                slices>>
inferVars == <<acc, seen, nrecs>>

\* The state of the rest of the model.
codecVars == <<serRows, serArity, batch_size, serNext, buffer, sink, readPos,
               decoded>>

concVars == <<cpc, crows, cname, disk, cread, cout>>

\* The two configurations and the calls that work on them.
confVars == <<t_config, j_config, execOp, merged, added>>

extVars == <<prev, codecVars, concVars, createArgs, confVars>>

\* extVars and the record of the last use_catalog or use_database call.
extAndSessionVars == <<extVars, sessionOp>>

----------------------------------------------------------------------------
(* Bounds.                                                                 *)

MaxPathLen == 7     \* pieces in an enumerated path
MaxElems == 2       \* elements in one from_elements call
MaxCalls == 2       \* calls started in one run
MaxRows == 2        \* rows of a DataFrame
MaxSplits == 2      \* largest splits_num tried
MaxCols == 2        \* columns of a DataFrame
MaxBatch == 3       \* rows given to serialize
MaxBatchSize == 2   \* largest batch size tried
MaxCallers == 2     \* callers that call concurrently
MaxRecs == 3        \* records fed to inference
MaxArity == 2       \* arity of the tuple records fed to inference

----------------------------------------------------------------------------
(* Path resolution.                                                        *)

Dot == "."
\* The backtick character, written out because the string lexer has no
\* escape for it.
Tick == "<backtick>"

\* Keywords of the SQL dialect that an unescaped identifier may not be.
ReservedWords == {"Table"}

\* The catalogs of the documented example (use_catalog's docstring) and
\* their databases; the first database is the catalog's default one.
Catalogs == {<<"default_catalog">>, <<"cat1">>}

DatabasesOf(c) ==
    IF c = <<"default_catalog">> THEN {<<"default_database">>, <<"db1">>}
    ELSE {<<"db1">>}

DefaultDatabaseOf(c) ==
    IF c = <<"default_catalog">> THEN <<"default_database">> ELSE <<"db1">>

ParseError == [status |-> "ParseError", catalog |-> <<>>, database |-> <<>>,
               object |-> <<>>]

NoResult == [status |-> "none", catalog |-> <<>>, database |-> <<>>,
             object |-> <<>>]

Triple(c, d, o) == [status |-> "ok", catalog |-> c, database |-> d, object |-> o]

\* One scanning step over the pieces of p, from piece i on.
\*   mode "start":  at the start of a segment
\*   mode "bare":   inside an unescaped segment
\*   mode "quoted": inside a backtick-escaped segment
\*   mode "closed": right after the closing backtick of a segment
\* cur is the text of the segment so far, segs the finished segments, each
\* [text, quoted].  The result is [ok, segs].
RECURSIVE Scan(_, _, _, _, _)
Scan(p, i, mode, cur, segs) ==
    IF i > Len(p) THEN
        CASE mode = "bare" ->
                [ok |-> TRUE, segs |-> Append(segs, [text |-> cur, quoted |-> FALSE])]
          [] mode = "closed" ->
                [ok |-> TRUE, segs |-> Append(segs, [text |-> cur, quoted |-> TRUE])]
          [] OTHER -> [ok |-> FALSE, segs |-> <<>>]
    ELSE
        CASE mode = "start" ->
                IF p[i] = Tick THEN Scan(p, i + 1, "quoted", <<>>, segs)
                ELSE IF p[i] = Dot THEN [ok |-> FALSE, segs |-> <<>>]
                ELSE Scan(p, i + 1, "bare", <<p[i]>>, segs)
          [] mode = "bare" ->
                IF p[i] = Dot
                THEN Scan(p, i + 1, "start", <<>>,
                          Append(segs, [text |-> cur, quoted |-> FALSE]))
                ELSE IF p[i] = Tick THEN [ok |-> FALSE, segs |-> <<>>]
                ELSE Scan(p, i + 1, "bare", Append(cur, p[i]), segs)
          [] mode = "quoted" ->
                IF p[i] = Tick
                THEN IF cur = <<>> THEN [ok |-> FALSE, segs |-> <<>>]
                     ELSE Scan(p, i + 1, "closed", cur, segs)
                ELSE Scan(p, i + 1, "quoted", Append(cur, p[i]), segs)
          [] OTHER -> \* "closed"
                IF p[i] = Dot
                THEN Scan(p, i + 1, "start", <<>>,
                          Append(segs, [text |-> cur, quoted |-> TRUE]))
                ELSE [ok |-> FALSE, segs |-> <<>>]

\* An unescaped segment that is a keyword is rejected.
IsKeyword(seg) ==
    /\ ~seg.quoted
    /\ Len(seg.text) = 1
    /\ seg.text[1] \in ReservedWords

ParsePath(p) ==
    LET r == Scan(p, 1, "start", <<>>, <<>>) IN
    IF ~r.ok THEN r
    ELSE IF Len(r.segs) > 3 THEN [ok |-> FALSE, segs |-> <<>>]
    ELSE IF \E k \in 1..Len(r.segs) : IsKeyword(r.segs[k])
         THEN [ok |-> FALSE, segs |-> <<>>]
    ELSE r

\* Resolve, were the first of two segments taken for the catalog.
Resolve_two_segments_as_catalog(p, C, D) ==
    LET r == ParsePath(p) IN
    IF ~r.ok THEN ParseError
    ELSE CASE Len(r.segs) = 3 ->
                Triple(r.segs[1].text, r.segs[2].text, r.segs[3].text)
           [] Len(r.segs) = 2 -> Triple(r.segs[1].text, D, r.segs[2].text)
           [] OTHER -> Triple(C, D, r.segs[1].text)

\* The documented resolution (use_catalog's table): three segments are
\* catalog, database and object; two are database and object in the
\* current catalog; one is the object in the current catalog and database.
Resolve(p, C, D) ==
    LET r == ParsePath(p) IN
    IF ~r.ok THEN ParseError
    ELSE CASE Len(r.segs) = 3 ->
                Triple(r.segs[1].text, r.segs[2].text, r.segs[3].text)
           [] Len(r.segs) = 2 -> Triple(C, r.segs[1].text, r.segs[2].text)
           [] OTHER -> Triple(C, D, r.segs[1].text)

\* The paths tried: every sequence of at most MaxPathLen pieces over a small
\* alphabet, and the documented examples.
PathAlphabet == {"a", Dot, Tick}

EnumeratedPaths == UNION {[1..n -> PathAlphabet] : n \in 0..MaxPathLen}

DocumentedPaths ==
    { <<"tab1">>,
      <<"db1", Dot, "tab1">>,
      <<"cat1", Dot, "db1", Dot, "tab1">>,
      <<Tick, "a", Dot, "b", Tick, Dot, "c">>,
      <<Tick, "cat", Dot, "1", Tick, Dot, Tick, "db", Tick, Dot, Tick, "Table", Tick>>,
      <<"catalogName", Dot, Tick, "db", Dot, "Name", Tick, Dot, Tick, "Table", Tick>>,
      <<"cat1", Dot, "db1", Dot, "Table">>,
      <<Tick, "a", Tick, Dot, Tick, "b", Tick, Dot, Tick, "c", Tick, Dot, Tick, "d", Tick>> }

Paths == EnumeratedPaths \cup DocumentedPaths

----------------------------------------------------------------------------
(* Values, types and schemas of from_elements.                             *)

\* The widening chain of the design: boolean < integer < long < float <
\* double.
Chain == <<"boolean", "integer", "long", "float", "double">>

NumericTypes == {Chain[i] : i \in 1..Len(Chain)}

\* The atomic element types; a value is represented by its type.
Types == {"boolean", "integer", "long", "float", "double", "string", "bytes"}

\* The values used as fields of from_elements' elements.
FieldValues == {"integer", "string"}

Expr == [kind |-> "expr", vals |-> <<>>]
NoneElem == [kind |-> "none", vals |-> <<>>]
Atom(v) == [kind |-> "atom", vals |-> <<v>>]
Tup(vs) == [kind |-> "tuple", vals |-> vs]

ElementValues ==
    {Expr, NoneElem}
      \cup {Atom(v) : v \in FieldValues}
      \cup {Tup(vs) : vs \in [1..1 -> FieldValues] \cup [1..2 -> FieldValues]}

ElementSeqs == UNION {[1..n -> ElementValues] : n \in 0..MaxElems}

\* The schema argument: None, a list of names, a RowType, another DataType,
\* or something that is none of these.
SchemaNone == [kind |-> "none", names |-> <<>>, types |-> <<>>]
SchemaNames(ns) == [kind |-> "names", names |-> ns, types |-> <<>>]
RowType(ns, ts) == [kind |-> "row", names |-> ns, types |-> ts]
ScalarType(t) == [kind |-> "scalar", names |-> <<>>, types |-> <<t>>]
SchemaOther == [kind |-> "other", names |-> <<>>, types |-> <<>>]

SchemaArgs ==
    { SchemaNone, SchemaNames(<<"a">>), SchemaNames(<<"a", "b">>),
      RowType(<<"a">>, <<"integer">>),
      RowType(<<"a", "b">>, <<"integer", "string">>),
      ScalarType("integer"), ScalarType("string"), SchemaOther }

NoSchema == [kind |-> "unset", names |-> <<>>, types |-> <<>>]

\* The row None is converted to.
NullRow == <<"<no row>">>

NotHanded == [given |-> FALSE, rows |-> <<>>, schema |-> NoSchema]
Handed(rs, sch) == [given |-> TRUE, rows |-> rs, schema |-> sch]

----------------------------------------------------------------------------
(* pyflink.table.types: the verifier, the converter and schema inference.  *)

\* A value v is acceptable for the data type t.
Accepts(t, v) == v = t

\* _create_type_verifier(RowType): None is accepted (the row type is
\* nullable), a tuple of the schema's arity whose values fit the fields is
\* accepted, everything else is rejected.
VerifyRow(sch, obj) ==
    \/ obj.kind = "none"
    \/ /\ obj.kind = "tuple"
       /\ Len(obj.vals) = Len(sch.types)
       /\ \A k \in 1..Len(obj.vals) : Accepts(sch.types[k], obj.vals[k])

\* _create_type_verifier(data_type, name="field value") for an atomic type.
VerifyScalar(t, obj) ==
    \/ obj.kind = "none"
    \/ /\ obj.kind = "atom"
       /\ Accepts(t, obj.vals[1])

\* RowType.to_sql_type(obj): None stays None, a tuple-shaped record becomes
\* the row of its values in order, anything else is not a record.
RowToSqlType(sch, obj) ==
    CASE obj.kind = "none" -> [ok |-> TRUE, row |-> NullRow]
      [] obj.kind = "tuple" -> [ok |-> TRUE, row |-> obj.vals]
      [] OTHER -> [ok |-> FALSE, row |-> <<>>]

Rank(t) == CHOOSE i \in 1..Len(Chain) : Chain[i] = t

\* MergeType, were two types of the chain merged to the wider one.
MergeType_widens(a, b) ==
    IF a = b THEN [ok |-> TRUE, type |-> a]
    ELSE IF a \in NumericTypes /\ b \in NumericTypes
         THEN [ok |-> TRUE, type |-> IF Rank(a) >= Rank(b) THEN a ELSE b]
    ELSE [ok |-> FALSE, type |-> a]

\* MergeType, were the type of the first record kept whatever comes later.
MergeType_first_wins(a, b) == [ok |-> TRUE, type |-> a]

\* Merge of the types two records have in one column.  from_elements'
\* contract (lines 1353-1358) is that all elements are of the same type and
\* that the element types of tuples are equal in order: equal types merge to
\* themselves and nothing else merges.
MergeType(a, b) ==
    IF a = b THEN [ok |-> TRUE, type |-> a]
    ELSE [ok |-> FALSE, type |-> a]

\* MergeSchema, were the columns the shorter record lacks taken from the
\* longer one.
MergeSchema_pads(a, b) ==
    LET n == IF Len(a) <= Len(b) THEN Len(a) ELSE Len(b)
        long == IF Len(a) >= Len(b) THEN a ELSE b
    IN IF \E k \in 1..n : ~MergeType(a[k], b[k]).ok
       THEN [ok |-> FALSE, types |-> <<>>]
       ELSE [ok |-> TRUE,
             types |-> [k \in 1..Len(long) |->
                           IF k <= n THEN MergeType(a[k], b[k]).type ELSE long[k]]]

\* Merge of two row schemas, column by column; the arities must agree.
MergeSchema(a, b) ==
    IF Len(a) # Len(b) THEN [ok |-> FALSE, types |-> <<>>]
    ELSE IF \E k \in 1..Len(a) : ~MergeType(a[k], b[k]).ok
         THEN [ok |-> FALSE, types |-> <<>>]
    ELSE [ok |-> TRUE, types |-> [k \in 1..Len(a) |-> MergeType(a[k], b[k]).type]]

\* _infer_schema(row): only a tuple-shaped record has a schema.
InferRow(obj) ==
    IF obj.kind = "tuple" THEN [ok |-> TRUE, types |-> obj.vals]
    ELSE [ok |-> FALSE, types |-> <<>>]

\* reduce(_merge_type, (_infer_schema(row) for row in elements)), from
\* element i on, with accumulator a.
RECURSIVE ReduceSchemas(_, _, _)
ReduceSchemas(es, i, a) ==
    IF i > Len(es) THEN [ok |-> TRUE, types |-> a]
    ELSE LET r == InferRow(es[i]) IN
         IF ~r.ok THEN [ok |-> FALSE, types |-> <<>>]
         ELSE LET m == MergeSchema(a, r.types) IN
              IF ~m.ok THEN m ELSE ReduceSchemas(es, i + 1, m.types)

\* GeneratedNames, were the names numbered by a counter that runs on from
\* one call to the next.
GeneratedNames_numbered_across_calls(n) ==
    [k \in 1..n |-> IF ncalls <= 1
                    THEN (CASE k = 1 -> "_1" [] k = 2 -> "_2" [] OTHER -> "_3")
                    ELSE (CASE k = 1 -> "_3" [] k = 2 -> "_4" [] OTHER -> "_5")]

\* The field names generated for unboxed elements: "_1", "_2", ...
GeneratedNames(n) ==
    [k \in 1..n |-> CASE k = 1 -> "_1" [] k = 2 -> "_2" [] OTHER -> "_3"]

\* _infer_schema_from_data(elements, names): fails on no data, on a record
\* that is no tuple, on records that do not merge, and on names whose number
\* is not the arity.
InferSchemaFromData(es, names) ==
    IF es = <<>> THEN [ok |-> FALSE, schema |-> NoSchema]
    ELSE LET first == InferRow(es[1]) IN
         IF ~first.ok THEN [ok |-> FALSE, schema |-> NoSchema]
         ELSE LET r == ReduceSchemas(es, 2, first.types) IN
              IF ~r.ok THEN [ok |-> FALSE, schema |-> NoSchema]
              ELSE IF names # <<>> /\ Len(names) # Len(r.types)
                   THEN [ok |-> FALSE, schema |-> NoSchema]
              ELSE [ok |-> TRUE,
                    schema |-> RowType(IF names = <<>> THEN GeneratedNames(Len(r.types))
                                       ELSE names, r.types)]

----------------------------------------------------------------------------
(* from_elements.                                                          *)

\* verify_func of lines 1411 and 1420-1421: the verifier built from the
\* schema argument when verify_schema is set, lambda _: True otherwise.
verify_func(sch, verify, obj) ==
    IF ~verify THEN TRUE
    ELSE IF sch.kind = "row" THEN VerifyRow(sch, obj)
    ELSE VerifyScalar(sch.types[1], obj)

\* verify_obj, were it to return what verify_func returns (None from a
\* verifier, True from the lambda) instead of the object.
verify_obj_returns_check(sch, verify, obj) ==
    IF sch.kind \in {"row", "scalar"}
    THEN [ok |-> verify_func(sch, verify, obj),
          value |-> IF verify THEN NoneElem ELSE Atom("boolean")]
    ELSE [ok |-> TRUE, value |-> obj]

\* verify_obj of lines 1413-1415, 1423-1425 and 1427-1428: calls verify_func
\* where there is one and returns the object it was given.
verify_obj(sch, verify, obj) ==
    IF sch.kind \in {"row", "scalar"}
    THEN [ok |-> verify_func(sch, verify, obj), value |-> obj]
    ELSE [ok |-> TRUE, value |-> obj]

\* The local schema after lines 1409-1428.
SchemaAfterVerifierSetup(sch) ==
    IF sch.kind = "scalar" THEN RowType(<<"value">>, sch.types) ELSE sch

\* The converter of _create_converter(schema) leaves a tuple as it is.
Converter(obj) == obj

IsExpression(obj) == obj.kind = "expr"

ResetCall ==
    /\ input' = <<>>
    /\ single_pass' = FALSE
    /\ elements' = <<>>
    /\ schema' = NoSchema
    /\ verify_schema' = TRUE
    /\ rowSchema' = NoSchema
    /\ idx' = 0
    /\ verified' = {}
    /\ rows' = <<>>
    /\ inferCalls' = 0
    /\ verifierBuilt' = FALSE
    /\ handed' = NotHanded
    /\ callDirs' = {}
    /\ callFiles' = {}
    /\ remoteLog' = <<>>
    /\ outcome' = "none"
    /\ pdfIsFrame' = TRUE
    /\ pdfLen' = 0
    /\ pdfCols' = 0
    /\ pdSchema' = NoSchema
    /\ splits_num' = 1
    /\ result_type' = NoSchema
    /\ slices' = <<>>

\* The call raises exception e.
Raise(e) ==
    /\ outcome' = e
    /\ pc' = "done"

\* from_elements(elements, schema, verify_schema) is called, with any
\* Iterable as elements (a list, or an iterator that can be consumed once),
\* any schema and any flag.
from_elements ==
    /\ pc = "idle"
    /\ ncalls < MaxCalls
    /\ ncalls' = ncalls + 1
    /\ \E es \in ElementSeqs, once \in BOOLEAN, sch \in SchemaArgs,
          verify \in BOOLEAN :
          /\ input' = es
          /\ single_pass' = once
          /\ elements' = es
          /\ schema' = sch
          /\ verify_schema' = verify
    /\ outcome' = "running"
    /\ pc' = "fe_prepare"
    /\ UNCHANGED <<rowSchema, idx, verified, rows, inferCalls, verifierBuilt,
                   handed, remoteLog, pandasVars>>
    /\ UNCHANGED <<pathVars, fsVars, inferVars>>
    /\ UNCHANGED extAndSessionVars

\* from_elements_prepare, were a verifier built whenever verify_schema is
\* set, from the inferred schema when none was given.
from_elements_prepare_verifies_inferred ==
    /\ pc = "fe_prepare"
    /\ LET needInfer == schema.kind \in {"none", "names"}
           inf == InferSchemaFromData(elements, schema.names)
           es == IF ~needInfer THEN elements
                 ELSE IF single_pass THEN <<>>
                 ELSE [k \in 1..Len(elements) |-> Converter(elements[k])]
       IN
       /\ verifierBuilt' = verify_schema
       /\ inferCalls' = IF needInfer THEN inferCalls + 1 ELSE inferCalls
       /\ CASE needInfer /\ ~inf.ok ->
                 /\ Raise("SchemaError")
                 /\ UNCHANGED <<rowSchema, elements, idx, remoteLog>>
            [] schema.kind = "other" ->
                 /\ Raise("TypeError")
                 /\ UNCHANGED <<rowSchema, elements, idx, remoteLog>>
            [] OTHER ->
                 /\ rowSchema' = IF needInfer THEN inf.schema
                                 ELSE SchemaAfterVerifierSetup(schema)
                 /\ elements' = es
                 /\ IF Len(es) > 0 /\ \A k \in 1..Len(es) : IsExpression(es[k])
                    THEN /\ remoteLog' =
                               Append(remoteLog,
                                      IF rowSchema'.kind = "none"
                                      THEN "fromValues"
                                      ELSE "fromValues(data_type)")
                         /\ Raise("ok")
                         /\ UNCHANGED idx
                    ELSE IF \E k \in 1..Len(es) : IsExpression(es[k])
                    THEN /\ Raise("ValueError")
                         /\ UNCHANGED <<idx, remoteLog>>
                    ELSE /\ idx' = 1
                         /\ pc' = "fe_verify"
                         /\ UNCHANGED <<outcome, remoteLog>>
    /\ UNCHANGED <<input, single_pass, schema, verify_schema, verified, rows,
                   handed, ncalls,
                   pandasVars>>
    /\ UNCHANGED <<pathVars, fsVars, inferVars>>
    /\ UNCHANGED extAndSessionVars

\* from_elements_prepare, were the elements tested for Expressions before
\* the schema is inferred and checked.
from_elements_prepare_expressions_first ==
    /\ pc = "fe_prepare"
    /\ LET needInfer == schema.kind \in {"none", "names"}
           inf == InferSchemaFromData(elements, schema.names)
           es == IF ~needInfer THEN elements
                 ELSE IF single_pass THEN <<>>
                 ELSE [k \in 1..Len(elements) |-> Converter(elements[k])]
       IN
       /\ verifierBuilt' = (schema.kind \in {"row", "scalar"} /\ verify_schema)
       /\ inferCalls' = IF needInfer THEN inferCalls + 1 ELSE inferCalls
       /\ CASE Len(elements) > 0
                 /\ \A k \in 1..Len(elements) : IsExpression(elements[k]) ->
                 /\ remoteLog' =
                       Append(remoteLog,
                              IF schema.kind = "none" THEN "fromValues"
                              ELSE "fromValues(data_type)")
                 /\ Raise("ok")
                 /\ UNCHANGED <<rowSchema, elements, idx>>
            [] needInfer /\ ~inf.ok ->
                 /\ Raise("SchemaError")
                 /\ UNCHANGED <<rowSchema, elements, idx, remoteLog>>
            [] schema.kind = "other" ->
                 /\ Raise("TypeError")
                 /\ UNCHANGED <<rowSchema, elements, idx, remoteLog>>
            [] OTHER ->
                 /\ rowSchema' = IF needInfer THEN inf.schema
                                 ELSE SchemaAfterVerifierSetup(schema)
                 /\ elements' = es
                 /\ IF Len(es) > 0 /\ \A k \in 1..Len(es) : IsExpression(es[k])
                    THEN /\ remoteLog' =
                               Append(remoteLog,
                                      IF rowSchema'.kind = "none"
                                      THEN "fromValues"
                                      ELSE "fromValues(data_type)")
                         /\ Raise("ok")
                         /\ UNCHANGED idx
                    ELSE IF \E k \in 1..Len(es) : IsExpression(es[k])
                    THEN /\ Raise("ValueError")
                         /\ UNCHANGED <<idx, remoteLog>>
                    ELSE /\ idx' = 1
                         /\ pc' = "fe_verify"
                         /\ UNCHANGED <<outcome, remoteLog>>
    /\ UNCHANGED <<input, single_pass, schema, verify_schema, verified, rows,
                   handed, ncalls,
                   pandasVars>>
    /\ UNCHANGED <<pathVars, fsVars, inferVars>>
    /\ UNCHANGED extAndSessionVars

\* Lines 1409-1452: the verifier is set up, the schema is inferred when it
\* was not given, the elements are made a list, and the Expression case is
\* handled.  The inference of line 1432 iterates over elements, and
\* list(map(converter, elements)) of lines 1434 and 1440 iterates over it
\* again: an iterator has nothing left by then.
from_elements_prepare ==
    /\ pc = "fe_prepare"
    /\ LET needInfer == schema.kind \in {"none", "names"}
           inf == InferSchemaFromData(elements, schema.names)
           es == IF ~needInfer THEN elements
                 ELSE IF single_pass THEN <<>>
                 ELSE [k \in 1..Len(elements) |-> Converter(elements[k])]
       IN
       /\ verifierBuilt' = (schema.kind \in {"row", "scalar"} /\ verify_schema)
       /\ inferCalls' = IF needInfer THEN inferCalls + 1 ELSE inferCalls
       /\ CASE needInfer /\ ~inf.ok ->
                 /\ Raise("SchemaError")
                 /\ UNCHANGED <<rowSchema, elements, idx, remoteLog>>
            [] schema.kind = "other" ->
                 /\ Raise("TypeError")
                 /\ UNCHANGED <<rowSchema, elements, idx, remoteLog>>
            [] OTHER ->
                 /\ rowSchema' = IF needInfer THEN inf.schema
                                 ELSE SchemaAfterVerifierSetup(schema)
                 /\ elements' = es
                 /\ IF Len(es) > 0 /\ \A k \in 1..Len(es) : IsExpression(es[k])
                    THEN /\ remoteLog' =
                               Append(remoteLog,
                                      IF rowSchema'.kind = "none"
                                      THEN "fromValues"
                                      ELSE "fromValues(data_type)")
                         /\ Raise("ok")
                         /\ UNCHANGED idx
                    ELSE IF \E k \in 1..Len(es) : IsExpression(es[k])
                    THEN /\ Raise("ValueError")
                         /\ UNCHANGED <<idx, remoteLog>>
                    ELSE /\ idx' = 1
                         /\ pc' = "fe_verify"
                         /\ UNCHANGED <<outcome, remoteLog>>
    /\ UNCHANGED <<input, single_pass, schema, verify_schema, verified, rows,
                   handed, ncalls,
                   pandasVars>>
    /\ UNCHANGED <<pathVars, fsVars, inferVars>>
    /\ UNCHANGED extAndSessionVars

\* from_elements_verify, were the rows converted so far passed on when an
\* element fails verification.
from_elements_verify_hands_prefix ==
    /\ pc = "fe_verify"
    /\ idx <= Len(elements)
    /\ verified' = IF verifierBuilt THEN verified \cup {idx} ELSE verified
    /\ IF verify_obj(schema, verify_schema, elements[idx]).ok
       THEN /\ pc' = "fe_convert"
            /\ UNCHANGED handed
       ELSE /\ handed' = Handed(rows, rowSchema)
            /\ pc' = "fe_temp"
    /\ UNCHANGED <<input, single_pass, elements, schema, verify_schema, rowSchema, idx, rows,
                   inferCalls, verifierBuilt, outcome, remoteLog, ncalls,
                   pandasVars>>
    /\ UNCHANGED <<pathVars, fsVars, inferVars>>
    /\ UNCHANGED extAndSessionVars

\* from_elements_verify, were the flag inverted where verify_func is chosen:
\* with verify_schema set the elements pass through lambda _: True.
from_elements_verify_flag_inverted ==
    /\ pc = "fe_verify"
    /\ idx <= Len(elements)
    /\ verified' = IF verifierBuilt /\ ~verify_schema THEN verified \cup {idx}
                   ELSE verified
    /\ IF verify_obj(schema, ~verify_schema, elements[idx]).ok
       THEN /\ pc' = "fe_convert"
            /\ UNCHANGED outcome
       ELSE Raise("ValidationError")
    /\ UNCHANGED <<input, single_pass, elements, schema, verify_schema, rowSchema, idx, rows,
                   inferCalls, verifierBuilt, handed, remoteLog, ncalls,
                   pandasVars>>
    /\ UNCHANGED <<pathVars, fsVars, inferVars>>
    /\ UNCHANGED extAndSessionVars

\* Lines 1455 and 1457: the list comprehension pulls the next element
\* through map(verify_obj, ...).
from_elements_verify ==
    /\ pc = "fe_verify"
    /\ idx <= Len(elements)
    /\ verified' = IF verifierBuilt THEN verified \cup {idx} ELSE verified
    /\ IF verify_obj(schema, verify_schema, elements[idx]).ok
       THEN /\ pc' = "fe_convert"
            /\ UNCHANGED outcome
       ELSE Raise("ValidationError")
    /\ UNCHANGED <<input, single_pass, elements, schema, verify_schema, rowSchema, idx, rows,
                   inferCalls, verifierBuilt, handed, remoteLog, ncalls,
                   pandasVars>>
    /\ UNCHANGED <<pathVars, fsVars, inferVars>>
    /\ UNCHANGED extAndSessionVars

\* Line 1457: schema.to_sql_type(element) on what verify_obj returned.
from_elements_convert ==
    /\ pc = "fe_convert"
    /\ LET obj == verify_obj(schema, verify_schema, elements[idx]).value
           c == RowToSqlType(rowSchema, obj)
       IN IF c.ok
          THEN /\ rows' = Append(rows, c.row)
               /\ idx' = idx + 1
               /\ pc' = "fe_verify"
               /\ UNCHANGED outcome
          ELSE /\ Raise("ConversionError")
               /\ UNCHANGED <<rows, idx>>
    /\ UNCHANGED <<input, single_pass, elements, schema, verify_schema, rowSchema, verified,
                   inferCalls, verifierBuilt, handed, remoteLog, ncalls,
                   pandasVars>>
    /\ UNCHANGED <<pathVars, fsVars, inferVars>>
    /\ UNCHANGED extAndSessionVars

\* Line 1458: the list is complete and is passed to _from_elements.
from_elements_hand ==
    /\ pc = "fe_verify"
    /\ idx > Len(elements)
    /\ handed' = Handed(rows, rowSchema)
    /\ pc' = "fe_temp"
    /\ UNCHANGED <<input, single_pass, elements, schema, verify_schema, rowSchema, idx, verified,
                   rows, inferCalls, verifierBuilt, outcome, remoteLog, ncalls,
                   pandasVars>>
    /\ UNCHANGED <<pathVars, fsVars, inferVars>>
    /\ UNCHANGED extAndSessionVars

----------------------------------------------------------------------------
(* Temporary storage: shared by _from_elements and from_pandas.            *)

\* The names mkdtemp and NamedTemporaryFile make are fresh: the call's number.
FreshName == ncalls

\* tempfile.NamedTemporaryFile(delete=False, dir=tempfile.mkdtemp()): the
\* directory is made, then the file is made in it and left open.  When the
\* directory cannot be made the call raises (the statement is outside try).
CreateTemp(next) ==
    \E res \in {"ok", "mkdtemp fails"} :
        /\ tmpDirs' = IF res = "ok" THEN tmpDirs \cup {FreshName} ELSE tmpDirs
        /\ callDirs' = IF res = "ok" THEN callDirs \cup {FreshName} ELSE callDirs
        /\ tmpFiles' = IF res = "ok" THEN tmpFiles \cup {FreshName} ELSE tmpFiles
        /\ callFiles' = IF res = "ok" THEN callFiles \cup {FreshName} ELSE callFiles
        /\ openFiles' = IF res = "ok" THEN openFiles \cup {FreshName} ELSE openFiles
        /\ UNCHANGED written
        /\ IF res = "ok"
           THEN /\ pc' = next
                /\ UNCHANGED outcome
           ELSE Raise("OSError")

\* with temp_file: serializer.serialize(..., temp_file): the file is closed
\* when the block is left, whether or not serialize raised.
SerializeToTemp(next, finally) ==
    \E ok \in BOOLEAN :
        /\ openFiles' = openFiles \ callFiles
        /\ written' = IF ok THEN written \cup callFiles ELSE written
        /\ IF ok
           THEN /\ pc' = next
                /\ UNCHANGED outcome
           ELSE /\ pc' = finally
                /\ outcome' = "SerializeError"
        /\ UNCHANGED <<tmpDirs, tmpFiles, callDirs, callFiles>>

\* finally: os.unlink(temp_file.name); then the call returns or re-raises.
UnlinkTemp ==
    /\ tmpFiles' = tmpFiles \ callFiles
    /\ written' = written \ callFiles
    /\ pc' = "done"
    /\ UNCHANGED <<tmpDirs, openFiles, callDirs, callFiles, outcome>>

\* Line 1468.
from_elements_create_temp ==
    /\ pc = "fe_temp"
    /\ CreateTemp("fe_serialize")
    /\ UNCHANGED <<elemVars, pathVars, inferVars, pandasVars, remoteLog, ncalls>>
    /\ UNCHANGED extAndSessionVars

\* from_elements_serialize, were the file written without the with block:
\* it is still open when the remote side is called.
from_elements_serialize_leaves_open ==
    /\ pc = "fe_serialize"
    /\ \E ok \in BOOLEAN :
          /\ written' = IF ok THEN written \cup callFiles ELSE written
          /\ IF ok
             THEN /\ pc' = "fe_read"
                  /\ UNCHANGED outcome
             ELSE /\ pc' = "fe_unlink"
                  /\ outcome' = "SerializeError"
    /\ UNCHANGED <<tmpDirs, tmpFiles, openFiles, callDirs, callFiles>>
    /\ UNCHANGED <<elemVars, pathVars, inferVars, pandasVars, remoteLog, ncalls>>
    /\ UNCHANGED extAndSessionVars

\* Lines 1469-1472.
from_elements_serialize ==
    /\ pc = "fe_serialize"
    /\ SerializeToTemp("fe_read", "fe_unlink")
    /\ UNCHANGED <<elemVars, pathVars, inferVars, pandasVars, remoteLog, ncalls>>
    /\ UNCHANGED extAndSessionVars

\* Lines 1473-1476: the remote side reads the file.
from_elements_read ==
    /\ pc = "fe_read"
    /\ remoteLog' = Append(remoteLog, "readPythonObjects")
    /\ \E ok \in BOOLEAN :
          IF ok THEN /\ pc' = "fe_source"
                     /\ UNCHANGED outcome
          ELSE /\ pc' = "fe_unlink"
               /\ outcome' = "RemoteError"
    /\ UNCHANGED <<elemVars, pathVars, inferVars, pandasVars, fsVars, ncalls>>
    /\ UNCHANGED extAndSessionVars

\* Lines 1477-1486: the input format and the table source are made and
\* the table is created from the source.
from_elements_table_source ==
    /\ pc = "fe_source"
    /\ remoteLog' = Append(remoteLog, "fromTableSource")
    /\ \E ok \in BOOLEAN :
          /\ outcome' = IF ok THEN "ok" ELSE "RemoteError"
          /\ pc' = "fe_unlink"
    /\ UNCHANGED <<elemVars, pathVars, inferVars, pandasVars, fsVars, ncalls>>
    /\ UNCHANGED extAndSessionVars

\* Lines 1487-1488.
from_elements_unlink ==
    /\ pc = "fe_unlink"
    /\ UnlinkTemp
    /\ UNCHANGED <<elemVars, pathVars, inferVars, pandasVars, remoteLog, ncalls>>
    /\ UNCHANGED extAndSessionVars

----------------------------------------------------------------------------
(* from_pandas.                                                            *)

\* The schema argument of from_pandas: None, a list of field names, a list
\* of field types, a RowType, or something that is none of these.
SchemaTypes(ts) == [kind |-> "types", names |-> <<>>, types |-> ts]

PandasSchemaArgs ==
    { SchemaNone, SchemaNames(<<"a">>), SchemaNames(<<"a", "b">>),
      SchemaTypes(<<"double">>), RowType(<<"a">>, <<"double">>), SchemaOther }

\* The columns of a DataFrame of n columns, as pa.Schema.from_pandas gives
\* them: their names and their types.
ArrowNames(n) == [k \in 1..n |-> CASE k = 1 -> "c1" [] k = 2 -> "c2" [] OTHER -> "c3"]

ArrowTypes(n) == [k \in 1..n |-> "double"]

\* The length of zip(a, b).
ZipLen(a, b) == IF Len(a) <= Len(b) THEN Len(a) ELSE Len(b)

\* from_pandas(pdf, schema, splits_num) is called, with a DataFrame of any
\* number of rows and columns, any schema and any splits_num, or with
\* something that is no DataFrame.
from_pandas ==
    /\ pc = "idle"
    /\ ncalls < MaxCalls
    /\ ncalls' = ncalls + 1
    /\ \/ \E n \in 0..MaxRows, c \in 1..MaxCols, k \in 0..MaxSplits,
             sch \in PandasSchemaArgs :
             /\ pdfIsFrame' = TRUE
             /\ pdfLen' = n
             /\ pdfCols' = c
             /\ pdSchema' = sch
             /\ splits_num' = k
       \/ /\ pdfIsFrame' = FALSE
          /\ pdfLen' = 0
          /\ pdfCols' = 0
          /\ pdSchema' = SchemaNone
          /\ splits_num' = 1
    /\ outcome' = "running"
    /\ pc' = "fp_schema"
    /\ UNCHANGED <<result_type, slices>>
    /\ UNCHANGED <<elemVars, pathVars, fsVars, inferVars, remoteLog>>
    /\ UNCHANGED extAndSessionVars

\* Lines 1520-1543: pdf has to be a DataFrame; the row type is the given
\* RowType, or is made of the given names and the columns' types, or of the
\* columns' names and the given types, each pair taken by zip, or is that
\* of the columns.
from_pandas_result_type ==
    /\ pc = "fp_schema"
    /\ IF ~pdfIsFrame THEN /\ Raise("TypeError")
                           /\ UNCHANGED result_type
       ELSE CASE pdSchema.kind = "none" ->
                   /\ result_type' = RowType(ArrowNames(pdfCols), ArrowTypes(pdfCols))
                   /\ pc' = "fp_temp"
                   /\ UNCHANGED outcome
              [] pdSchema.kind = "row" ->
                   /\ result_type' = pdSchema
                   /\ pc' = "fp_temp"
                   /\ UNCHANGED outcome
              [] pdSchema.kind = "names" ->
                   LET n == ZipLen(pdSchema.names, ArrowTypes(pdfCols)) IN
                   /\ result_type' = RowType(SubSeq(pdSchema.names, 1, n),
                                             SubSeq(ArrowTypes(pdfCols), 1, n))
                   /\ pc' = "fp_temp"
                   /\ UNCHANGED outcome
              [] pdSchema.kind = "types" ->
                   LET n == ZipLen(ArrowNames(pdfCols), pdSchema.types) IN
                   /\ result_type' = RowType(SubSeq(ArrowNames(pdfCols), 1, n),
                                             SubSeq(pdSchema.types, 1, n))
                   /\ pc' = "fp_temp"
                   /\ UNCHANGED outcome
              [] OTHER ->
                   /\ Raise("TypeError")
                   /\ UNCHANGED result_type
    /\ UNCHANGED <<pdfIsFrame, pdfLen, pdfCols, pdSchema, splits_num, slices>>
    /\ UNCHANGED <<elemVars, pathVars, fsVars, inferVars, remoteLog, ncalls>>
    /\ UNCHANGED extAndSessionVars

\* Line 1546.
from_pandas_create_temp ==
    /\ pc = "fp_temp"
    /\ CreateTemp("fp_slices")
    /\ UNCHANGED <<elemVars, pathVars, inferVars, pandasVars, remoteLog, ncalls>>
    /\ UNCHANGED extAndSessionVars

\* step = -(-len(pdf) // splits_num)
Step(n, k) == -((-n) \div k)

\* The lengths of [pdf.iloc[start:start + step] for start in
\* range(0, n, step)], from start on.
RECURSIVE SliceLens(_, _, _)
SliceLens(n, step, start) ==
    IF start >= n THEN <<>>
    ELSE <<IF start + step <= n THEN step ELSE n - start>>
            \o SliceLens(n, step, start + step)

\* Lines 1547-1554, outside try: the division raises ZeroDivisionError for
\* splits_num = 0 and range raises ValueError for a step of 0.
from_pandas_slices ==
    /\ pc = "fp_slices"
    /\ IF splits_num = 0
       THEN /\ Raise("ZeroDivisionError")
            /\ UNCHANGED slices
       ELSE IF Step(pdfLen, splits_num) = 0
       THEN /\ Raise("ValueError")
            /\ UNCHANGED slices
       ELSE /\ slices' = SliceLens(pdfLen, Step(pdfLen, splits_num), 0)
            /\ pc' = "fp_serialize"
            /\ UNCHANGED outcome
    /\ UNCHANGED <<pdfIsFrame, pdfLen, pdfCols, pdSchema, splits_num, result_type>>
    /\ UNCHANGED <<elemVars, pathVars, inferVars, fsVars, remoteLog, ncalls>>
    /\ UNCHANGED extAndSessionVars

\* Lines 1555-1557.
from_pandas_serialize ==
    /\ pc = "fp_serialize"
    /\ SerializeToTemp("fp_source", "fp_unlink")
    /\ UNCHANGED <<elemVars, pathVars, inferVars, pandasVars, remoteLog, ncalls>>
    /\ UNCHANGED extAndSessionVars

\* Lines 1558-1568: the Arrow table source is made from the file's name
\* and the table is created from it.
from_pandas_table_source ==
    /\ pc = "fp_source"
    /\ remoteLog' = Append(remoteLog, "createArrowTableSource")
    /\ \E ok \in BOOLEAN :
          /\ outcome' = IF ok THEN "ok" ELSE "RemoteError"
          /\ pc' = "fp_unlink"
    /\ UNCHANGED <<elemVars, pathVars, inferVars, pandasVars, fsVars, ncalls>>
    /\ UNCHANGED extAndSessionVars

\* Lines 1569-1570.
from_pandas_unlink ==
    /\ pc = "fp_unlink"
    /\ UnlinkTemp
    /\ UNCHANGED <<elemVars, pathVars, inferVars, pandasVars, remoteLog, ncalls>>
    /\ UNCHANGED extAndSessionVars

\* What is kept of a from_elements call: its arguments and what it made
\* of them.
NoCall == [set |-> FALSE, input |-> <<>>, single_pass |-> FALSE,
           schema |-> NoSchema, verify_schema |-> TRUE, rowSchema |-> NoSchema,
           rows |-> <<>>, handed |-> NotHanded, outcome |-> "none"]

ThisCall == [set |-> TRUE, input |-> input, single_pass |-> single_pass,
             schema |-> schema, verify_schema |-> verify_schema,
             rowSchema |-> rowSchema, rows |-> rows, handed |-> handed,
             outcome |-> outcome]

\* The outcomes that are decided before _from_elements is entered.
LocalErrors == {"SchemaError", "TypeError", "ValueError", "ValidationError",
                "ConversionError"}

\* The call has returned or raised and is not repeated; its locals are
\* gone.
call_returns ==
    /\ pc = "done"
    /\ pc' = "idle"
    /\ ResetCall
    /\ UNCHANGED <<pathVars, inferVars, tmpDirs, tmpFiles, openFiles, written,
                   ncalls>>
    /\ prev' = NoCall
    /\ UNCHANGED <<codecVars, concVars, createArgs, sessionOp, confVars>>

\* A from_elements call has returned or raised, and the caller calls
\* from_elements again with equal elements (an iterator is a new iterator
\* over equal items), equal schema and any verify_schema.
from_elements_again ==
    /\ pc = "done"
    /\ schema # NoSchema
    /\ ncalls < MaxCalls
    /\ ncalls' = ncalls + 1
    /\ prev' = ThisCall
    /\ \E verify \in BOOLEAN : verify_schema' = verify
    /\ elements' = input
    /\ rowSchema' = NoSchema
    /\ idx' = 0
    /\ verified' = {}
    /\ rows' = <<>>
    /\ inferCalls' = 0
    /\ verifierBuilt' = FALSE
    /\ handed' = NotHanded
    /\ callDirs' = {}
    /\ callFiles' = {}
    /\ remoteLog' = <<>>
    /\ outcome' = "running"
    /\ pc' = "fe_prepare"
    /\ UNCHANGED <<input, single_pass, schema, tmpDirs, tmpFiles,
                   openFiles, written>>
    /\ UNCHANGED <<pathVars, inferVars, pandasVars, codecVars, concVars,
                   createArgs, sessionOp, confVars>>

----------------------------------------------------------------------------
(* Path resolution as the session sees it.                                 *)

\* from_path, were the whole string handed over as the object's name, the
\* way scan(*table_path) hands over its arguments.
from_path_unparsed ==
    /\ pc = "idle"
    /\ \E p \in Paths :
          /\ path' = p
          /\ resolved' = Triple(curCatalog, curDatabase, p)
    /\ pc' = "path_done"
    /\ UNCHANGED <<curCatalog, curDatabase, elemVars, fsVars, inferVars,
                   pandasVars, outcome, remoteLog, ncalls>>
    /\ UNCHANGED extAndSessionVars

\* from_path, were a path that does not parse looked up as one name.
from_path_lenient ==
    /\ pc = "idle"
    /\ \E p \in Paths :
          /\ path' = p
          /\ resolved' = IF ParsePath(p).ok THEN Resolve(p, curCatalog, curDatabase)
                         ELSE Triple(curCatalog, curDatabase, p)
    /\ pc' = "path_done"
    /\ UNCHANGED <<curCatalog, curDatabase, elemVars, fsVars, inferVars,
                   pandasVars, outcome, remoteLog, ncalls>>
    /\ UNCHANGED extAndSessionVars

\* from_path(path): the path goes to the remote environment as it is and
\* is resolved there against the current catalog and database.
from_path ==
    /\ pc = "idle"
    /\ \E p \in Paths :
          /\ path' = p
          /\ resolved' = Resolve(p, curCatalog, curDatabase)
    /\ pc' = "path_done"
    /\ UNCHANGED <<curCatalog, curDatabase, elemVars, fsVars, inferVars,
                   pandasVars, outcome, remoteLog, ncalls>>
    /\ UNCHANGED extAndSessionVars

\* A use_catalog or use_database call: its argument, the current database
\* when it was made, and whether it succeeded.
SessionOp(o, x, d, r) == [op |-> o, arg |-> x, before |-> d, ok |-> r]

NoSessionOp == SessionOp("none", <<>>, <<>>, FALSE)

\* use_catalog, were the current database left as it is.
use_catalog_keeps_database ==
    /\ pc = "idle"
    /\ \E c \in Catalogs \cup {<<"unknown">>} :
          /\ sessionOp' = SessionOp("use_catalog", c, curDatabase, c \in Catalogs)
          /\ IF c \in Catalogs
             THEN /\ curCatalog' = c
                  /\ UNCHANGED curDatabase
             ELSE UNCHANGED <<curCatalog, curDatabase>>
    /\ UNCHANGED <<pc, path, resolved, elemVars, fsVars, inferVars, pandasVars,
                   outcome, remoteLog, ncalls>>
    /\ UNCHANGED extVars

\* use_catalog(catalog_name): the current catalog becomes the given one and
\* the current database that catalog's default one; an unknown catalog
\* raises CatalogException and changes nothing.
use_catalog ==
    /\ pc = "idle"
    /\ \E c \in Catalogs \cup {<<"unknown">>} :
          /\ sessionOp' = SessionOp("use_catalog", c, curDatabase, c \in Catalogs)
          /\ IF c \in Catalogs
             THEN /\ curCatalog' = c
                  /\ curDatabase' = DefaultDatabaseOf(c)
             ELSE UNCHANGED <<curCatalog, curDatabase>>
    /\ UNCHANGED <<pc, path, resolved, elemVars, fsVars, inferVars, pandasVars,
                   outcome, remoteLog, ncalls>>
    /\ UNCHANGED extVars

\* use_database(database_name): the database has to exist in the current
\* catalog; otherwise CatalogException is raised and nothing changes.
use_database ==
    /\ pc = "idle"
    /\ \E d \in {<<"default_database">>, <<"db1">>, <<"unknown">>} :
          /\ sessionOp' = SessionOp("use_database", d, curDatabase,
                                    d \in DatabasesOf(curCatalog))
          /\ IF d \in DatabasesOf(curCatalog)
             THEN curDatabase' = d
             ELSE UNCHANGED curDatabase
    /\ UNCHANGED <<pc, curCatalog, path, resolved, elemVars, fsVars, inferVars,
                   pandasVars, outcome, remoteLog, ncalls>>
    /\ UNCHANGED extVars

\* from_path has returned or raised.
from_path_returns ==
    /\ pc = "path_done"
    /\ pc' = "idle"
    /\ path' = <<>>
    /\ resolved' = NoResult
    /\ UNCHANGED <<curCatalog, curDatabase, elemVars, fsVars, inferVars,
                   pandasVars, outcome, remoteLog, ncalls>>
    /\ UNCHANGED extAndSessionVars

----------------------------------------------------------------------------
(* StreamTableEnvironment.create.                                          *)

\* The arguments of create: whether stream_execution_environment and
\* table_config are given, and environment_settings, which is None or is in
\* streaming mode or in batch mode.
Arguments(e, t, st) == [env |-> e, table_config |-> t, settings |-> st]

NoArguments == Arguments(FALSE, FALSE, "none")

\* create(stream_execution_environment, table_config, environment_settings)
\* is called.
create ==
    /\ pc = "idle"
    /\ \E e \in BOOLEAN, t \in BOOLEAN, st \in {"none", "streaming", "batch"} :
          createArgs' = Arguments(e, t, st)
    /\ outcome' = "running"
    /\ pc' = "create_check"
    /\ UNCHANGED <<pathVars, elemVars, fsVars, pandasVars, inferVars, prev,
                   codecVars, concVars, remoteLog, ncalls>>
    /\ UNCHANGED <<sessionOp, confVars>>

\* create_check, were the case of table_config alone left out.
create_check_without_config_case ==
    /\ pc = "create_check"
    /\ IF \/ ~createArgs.env /\ ~createArgs.table_config
             /\ createArgs.settings = "none"
          \/ createArgs.table_config /\ createArgs.settings # "none"
       THEN /\ outcome' = "ValueError"
            /\ pc' = "created"
       ELSE /\ pc' = "create_gateway"
            /\ UNCHANGED outcome
    /\ UNCHANGED <<pathVars, elemVars, fsVars, pandasVars, inferVars, prev,
                   codecVars, concVars, createArgs, remoteLog, ncalls>>
    /\ UNCHANGED <<sessionOp, confVars>>

\* Lines 1691-1704: the three checks made on the arguments alone.
create_check ==
    /\ pc = "create_check"
    /\ IF \/ ~createArgs.env /\ ~createArgs.table_config
             /\ createArgs.settings = "none"
          \/ ~createArgs.env /\ createArgs.table_config
             /\ createArgs.settings = "none"
          \/ createArgs.table_config /\ createArgs.settings # "none"
       THEN /\ outcome' = "ValueError"
            /\ pc' = "created"
       ELSE /\ pc' = "create_gateway"
            /\ UNCHANGED outcome
    /\ UNCHANGED <<pathVars, elemVars, fsVars, pandasVars, inferVars, prev,
                   codecVars, concVars, createArgs, remoteLog, ncalls>>
    /\ UNCHANGED <<sessionOp, confVars>>

\* Lines 1706-1726: the gateway is obtained; environment_settings, if
\* given, is asked for its mode and has to be in streaming mode; the remote
\* environment is created from the arguments that are given.
create_gateway ==
    /\ pc = "create_gateway"
    /\ pc' = "created"
    /\ IF createArgs.settings # "none"
       THEN IF createArgs.settings # "streaming"
            THEN /\ remoteLog' = remoteLog \o <<"get_gateway", "isStreamingMode">>
                 /\ outcome' = "ValueError"
            ELSE /\ remoteLog' = remoteLog \o
                        <<"get_gateway", "isStreamingMode",
                          IF createArgs.env THEN "StreamTableEnvironment.create"
                          ELSE "TableEnvironment.create">>
                 /\ \E ok \in BOOLEAN : outcome' = IF ok THEN "ok" ELSE "RemoteError"
       ELSE IF ~createArgs.env
            THEN /\ remoteLog' = remoteLog \o <<"get_gateway">>
                 /\ outcome' = "AttributeError"
            ELSE /\ remoteLog' = remoteLog \o
                        <<"get_gateway", "StreamTableEnvironment.create">>
                 /\ \E ok \in BOOLEAN : outcome' = IF ok THEN "ok" ELSE "RemoteError"
    /\ UNCHANGED <<pathVars, elemVars, fsVars, pandasVars, inferVars, prev,
                   codecVars, concVars, createArgs, ncalls>>
    /\ UNCHANGED <<sessionOp, confVars>>

\* create has returned the environment or has raised.
create_returns ==
    /\ pc = "created"
    /\ pc' = "idle"
    /\ createArgs' = NoArguments
    /\ remoteLog' = <<>>
    /\ outcome' = "none"
    /\ UNCHANGED <<pathVars, elemVars, fsVars, pandasVars, inferVars, prev,
                   codecVars, concVars, ncalls>>
    /\ UNCHANGED <<sessionOp, confVars>>

----------------------------------------------------------------------------
(* Schema inference, one record at a time.                                 *)

TupleRecords == UNION {[1..n -> Types] : n \in 1..MaxArity}

\* The reduce of _infer_schema_from_data takes the next record: the first
\* record sets the schema, every later one is merged into it.  A record that
\* does not merge ends the inference with an error.
infer_feed ==
    /\ pc \in {"idle", "inferring"}
    /\ nrecs < MaxRecs
    /\ \E rec \in TupleRecords :
          IF nrecs = 0
          THEN /\ acc' = InferRow(Tup(rec)).types
               /\ seen' = [k \in 1..Len(rec) |-> {rec[k]}]
               /\ nrecs' = 1
               /\ pc' = "inferring"
               /\ outcome' = "running"
          ELSE LET m == MergeSchema(acc, InferRow(Tup(rec)).types) IN
               /\ seen' = IF Len(rec) = Len(acc)
                          THEN [k \in 1..Len(acc) |-> seen[k] \cup {rec[k]}]
                          ELSE seen
               /\ IF m.ok
                  THEN /\ acc' = m.types
                       /\ nrecs' = nrecs + 1
                       /\ UNCHANGED <<pc, outcome>>
                  ELSE /\ acc' = <<>>
                       /\ nrecs' = 0
                       /\ pc' = "infer_failed"
                       /\ outcome' = IF Len(rec) = Len(acc) THEN "SchemaError: types"
                                     ELSE "SchemaError: arity"
    /\ UNCHANGED <<pathVars, elemVars, fsVars, pandasVars, remoteLog, ncalls>>
    /\ UNCHANGED extAndSessionVars

\* _infer_schema_from_data returns the merged schema or has raised.
infer_returns ==
    /\ pc \in {"inferring", "infer_failed"}
    /\ pc' = "idle"
    /\ acc' = <<>>
    /\ seen' = <<>>
    /\ nrecs' = 0
    /\ outcome' = "none"
    /\ UNCHANGED <<pathVars, elemVars, fsVars, pandasVars, remoteLog, ncalls>>
    /\ UNCHANGED extAndSessionVars

----------------------------------------------------------------------------
(* The batch encoding of serialize and its reader.                         *)

\* The rows of n fields.
RowsOfArity(n) == [1..n -> FieldValues]

\* The cells of the fields of the rows rs, row after row.
RECURSIVE Flatten(_)
Flatten(rs) == IF rs = <<>> THEN <<>> ELSE Head(rs) \o Flatten(Tail(rs))

\* One batch on the sink: the number of its rows, then their fields.
EncodeBatch(rs) == <<Len(rs)>> \o Flatten(rs)

\* The rows of a batch of k rows of n fields that starts after cell p.
DecodeBatch(cells, p, k, n) ==
    [i \in 1..k |-> SubSeq(cells, p + (i - 1) * n + 1, p + i * n)]

\* serialize(rows, sink) is called: the sink is opened, empty.
serialize ==
    /\ pc = "idle"
    /\ \E n \in 1..MaxArity, b \in 1..MaxBatchSize :
          /\ serArity' = n
          /\ batch_size' = b
          /\ \E len \in 0..MaxBatch : \E rs \in [1..len -> RowsOfArity(n)] :
                serRows' = rs
    /\ serNext' = 1
    /\ buffer' = <<>>
    /\ sink' = <<>>
    /\ readPos' = 0
    /\ decoded' = <<>>
    /\ pc' = "serializing"
    /\ UNCHANGED <<pathVars, elemVars, fsVars, pandasVars, inferVars, prev,
                   concVars, createArgs, outcome, remoteLog, ncalls>>
    /\ UNCHANGED <<sessionOp, confVars>>

\* serialize takes the next row; a full batch is written at once.
serialize_row ==
    /\ pc = "serializing"
    /\ serNext <= Len(serRows)
    /\ LET buf == Append(buffer, serRows[serNext]) IN
       IF Len(buf) = batch_size
       THEN /\ sink' = sink \o EncodeBatch(buf)
            /\ buffer' = <<>>
       ELSE /\ buffer' = buf
            /\ UNCHANGED sink
    /\ serNext' = serNext + 1
    /\ UNCHANGED <<pc, serRows, serArity, batch_size, readPos, decoded>>
    /\ UNCHANGED <<pathVars, elemVars, fsVars, pandasVars, inferVars, prev,
                   concVars, createArgs, outcome, remoteLog, ncalls>>
    /\ UNCHANGED <<sessionOp, confVars>>

\* serialize_close, were the rows still buffered at the end dropped.
serialize_close_drops_buffer ==
    /\ pc = "serializing"
    /\ serNext > Len(serRows)
    /\ buffer' = <<>>
    /\ pc' = "deserializing"
    /\ UNCHANGED <<sink, serRows, serArity, batch_size, serNext, readPos, decoded>>
    /\ UNCHANGED <<pathVars, elemVars, fsVars, pandasVars, inferVars, prev,
                   concVars, createArgs, outcome, remoteLog, ncalls>>
    /\ UNCHANGED <<sessionOp, confVars>>

\* The rows have run out: what is buffered is written as a last batch and
\* the sink is closed.
serialize_close ==
    /\ pc = "serializing"
    /\ serNext > Len(serRows)
    /\ sink' = IF buffer = <<>> THEN sink ELSE sink \o EncodeBatch(buffer)
    /\ buffer' = <<>>
    /\ pc' = "deserializing"
    /\ UNCHANGED <<serRows, serArity, batch_size, serNext, readPos, decoded>>
    /\ UNCHANGED <<pathVars, elemVars, fsVars, pandasVars, inferVars, prev,
                   concVars, createArgs, outcome, remoteLog, ncalls>>
    /\ UNCHANGED <<sessionOp, confVars>>

\* The reader, which knows the row schema, reads the next batch.
deserialize_batch ==
    /\ pc = "deserializing"
    /\ readPos < Len(sink)
    /\ LET k == sink[readPos + 1] IN
       /\ decoded' = decoded \o DecodeBatch(sink, readPos + 1, k, serArity)
       /\ readPos' = readPos + 1 + k * serArity
    /\ UNCHANGED <<pc, serRows, serArity, batch_size, serNext, buffer, sink>>
    /\ UNCHANGED <<pathVars, elemVars, fsVars, pandasVars, inferVars, prev,
                   concVars, createArgs, outcome, remoteLog, ncalls>>
    /\ UNCHANGED <<sessionOp, confVars>>

\* The reader has reached the end of the sink.
deserialize_returns ==
    /\ pc \in {"deserializing", "deserialized"}
    /\ readPos >= Len(sink)
    /\ IF pc = "deserializing"
       THEN /\ pc' = "deserialized"
            /\ UNCHANGED codecVars
       ELSE /\ pc' = "idle"
            /\ serRows' = <<>>
            /\ serArity' = 0
            /\ batch_size' = 1
            /\ serNext' = 0
            /\ buffer' = <<>>
            /\ sink' = <<>>
            /\ readPos' = 0
            /\ decoded' = <<>>
    /\ UNCHANGED <<pathVars, elemVars, fsVars, pandasVars, inferVars, prev,
                   concVars, createArgs, outcome, remoteLog, ncalls>>
    /\ UNCHANGED <<sessionOp, confVars>>

----------------------------------------------------------------------------
(* _from_elements and from_pandas called by several callers at once.       *)
(* disk is a function from the names of the temporary files that exist to  *)
(* what they hold.                                                         *)

Callers == 1..MaxCallers

\* The names mkdtemp can make.
TempNames == 1..(MaxCallers + 1)

\* The row lists the callers pass.
CallerRows == {<<>>, <<<<"integer">>>>, <<<<"string">>, <<"integer">>>>}

NotRead == <<"<not read>">>

\* The file with name d is removed from the disk f.
Removed(f, d) == [e \in DOMAIN f \ {d} |-> f[e]]

\* The file with name d is on the disk f with contents x.
Stored(f, d, x) == [e \in DOMAIN f \cup {d} |-> IF e = d THEN x ELSE f[e]]

\* Caller c enters _from_elements (or from_pandas at line 1546) with its
\* own rows.
call_enter(c) ==
    /\ cpc[c] = "idle"
    /\ \E rs \in CallerRows : crows' = [crows EXCEPT ![c] = rs]
    /\ cpc' = [cpc EXCEPT ![c] = "temp"]
    /\ cout' = [cout EXCEPT ![c] = "running"]
    /\ UNCHANGED <<cname, disk, cread>>
    /\ UNCHANGED <<pc, pathVars, elemVars, fsVars, pandasVars, inferVars, prev,
                   codecVars, createArgs, outcome, remoteLog, ncalls>>
    /\ UNCHANGED <<sessionOp, confVars>>

\* call_create_temp, were the file made under one fixed name.
call_create_temp_fixed_name(c) ==
    /\ cpc[c] = "temp"
    /\ cname' = [cname EXCEPT ![c] = 1]
    /\ disk' = Stored(disk, 1, <<>>)
    /\ cpc' = [cpc EXCEPT ![c] = "serialize"]
    /\ UNCHANGED <<crows, cread, cout>>
    /\ UNCHANGED <<pc, pathVars, elemVars, fsVars, pandasVars, inferVars, prev,
                   codecVars, createArgs, outcome, remoteLog, ncalls>>
    /\ UNCHANGED <<sessionOp, confVars>>

\* Lines 1468 and 1546: mkdtemp makes a directory that did not exist, and
\* the file is made in it, empty.
call_create_temp(c) ==
    /\ cpc[c] = "temp"
    /\ \E d \in TempNames \ DOMAIN disk :
          /\ cname' = [cname EXCEPT ![c] = d]
          /\ disk' = Stored(disk, d, <<>>)
    /\ cpc' = [cpc EXCEPT ![c] = "serialize"]
    /\ UNCHANGED <<crows, cread, cout>>
    /\ UNCHANGED <<pc, pathVars, elemVars, fsVars, pandasVars, inferVars, prev,
                   codecVars, createArgs, outcome, remoteLog, ncalls>>
    /\ UNCHANGED <<sessionOp, confVars>>

\* Lines 1470-1472 and 1555-1557: the rows are written to the call's file,
\* or serialize raises.
call_serialize(c) ==
    /\ cpc[c] = "serialize"
    /\ \E ok \in BOOLEAN :
          IF ok
          THEN /\ disk' = IF cname[c] \in DOMAIN disk
                          THEN Stored(disk, cname[c], crows[c]) ELSE disk
               /\ cpc' = [cpc EXCEPT ![c] = "read"]
               /\ UNCHANGED cout
          ELSE /\ cout' = [cout EXCEPT ![c] = "SerializeError"]
               /\ cpc' = [cpc EXCEPT ![c] = "unlink"]
               /\ UNCHANGED disk
    /\ UNCHANGED <<crows, cname, cread>>
    /\ UNCHANGED <<pc, pathVars, elemVars, fsVars, pandasVars, inferVars, prev,
                   codecVars, createArgs, outcome, remoteLog, ncalls>>
    /\ UNCHANGED <<sessionOp, confVars>>

\* Lines 1473-1486 and 1558-1568: the remote side reads the file of the
\* name it is given and makes the table of what it read.
call_read(c) ==
    /\ cpc[c] = "read"
    /\ IF cname[c] \in DOMAIN disk
       THEN /\ cread' = [cread EXCEPT ![c] = disk[cname[c]]]
            /\ cout' = [cout EXCEPT ![c] = "ok"]
       ELSE /\ cout' = [cout EXCEPT ![c] = "FileNotFoundError"]
            /\ UNCHANGED cread
    /\ cpc' = [cpc EXCEPT ![c] = "unlink"]
    /\ UNCHANGED <<crows, cname, disk>>
    /\ UNCHANGED <<pc, pathVars, elemVars, fsVars, pandasVars, inferVars, prev,
                   codecVars, createArgs, outcome, remoteLog, ncalls>>
    /\ UNCHANGED <<sessionOp, confVars>>

\* Lines 1487-1488 and 1569-1570: os.unlink(temp_file.name), which raises
\* when there is no such file; then the call returns or raises.
call_unlink(c) ==
    /\ cpc[c] = "unlink"
    /\ IF cname[c] \in DOMAIN disk
       THEN /\ disk' = Removed(disk, cname[c])
            /\ UNCHANGED cout
       ELSE /\ cout' = [cout EXCEPT ![c] = "FileNotFoundError"]
            /\ UNCHANGED disk
    /\ cpc' = [cpc EXCEPT ![c] = "done"]
    /\ UNCHANGED <<crows, cname, cread>>
    /\ UNCHANGED <<pc, pathVars, elemVars, fsVars, pandasVars, inferVars, prev,
                   codecVars, createArgs, outcome, remoteLog, ncalls>>
    /\ UNCHANGED <<sessionOp, confVars>>

----------------------------------------------------------------------------
(* The configurations: the table config (get_config().get_configuration()) *)
(* and the configuration of the execution environment                      *)
(* (get_j_env_configuration(self._get_j_env())).  A configuration is a     *)
(* function from the keys it contains to strings; a string is the sequence *)
(* of its lexical pieces, a delimiter being a piece of its own.            *)

NoEntries == [k \in {} |-> <<>>]

containsKey(conf, key) == key \in DOMAIN conf

\* setString / set_string.
setString(conf, key, value) ==
    [k \in DOMAIN conf \cup {key} |-> IF k = key THEN value ELSE conf[k]]

\* Configuration without the key.
removeKey(conf, key) == [k \in DOMAIN conf \ {key} |-> conf[k]]

JARS == "pipeline.jars"
CLASSPATHS == "pipeline.classpaths"
PYTHON_FILES == "python.files"
PYTHON_ARCHIVES == "python.archives"
PYTHON_EXECUTABLE == "python.executable"
TARGET == "execution.target"
Semicolon == ";"
FILE_DELIMITER == ","
PARAM_DELIMITER == "#"

\* str.split(d): the pieces between the delimiters; the empty string splits
\* into one empty string.
RECURSIVE split(_, _)
split(s, d) ==
    IF \A i \in 1..Len(s) : s[i] # d
    THEN <<s>>
    ELSE LET i == CHOOSE j \in 1..Len(s) :
                      s[j] = d /\ \A k \in 1..(j - 1) : s[k] # d
         IN  <<SubSeq(s, 1, i - 1)>> \o split(SubSeq(s, i + 1, Len(s)), d)

\* d.join(list).
RECURSIVE join(_, _)
join(d, list) ==
    IF list = <<>> THEN <<>>
    ELSE IF Len(list) = 1 THEN list[1]
    ELSE list[1] \o <<d>> \o join(d, Tail(list))

Range(seq) == {seq[i] : i \in 1..Len(seq)}

\* The orders in which the elements of a set can be iterated.
Orders(S) ==
    {o \in [1..Cardinality(S) -> S] : \A i, j \in 1..Cardinality(S) :
                                          o[i] = o[j] => i = j}

\* jvm.java.net.URL(url): a string without a protocol is no URL.
MalformedURL(url) == url \notin {<<"file:/a.jar">>, <<"file:///a.jar">>,
                                 <<"file:/b.jar">>}

\* URL.toString(): the text of the URL in normal form.
URLtoString(url) == IF url = <<"file:///a.jar">> THEN <<"file:/a.jar">> ELSE url

\* The values the pipeline keys of the table config are given.
TableJarValues ==
    { <<"file:/a.jar">>,
      <<"file:///a.jar", Semicolon, "file:/a.jar">>,
      <<"file:/a.jar", Semicolon, "file:/b.jar">>,
      <<"a.jar">>,
      <<>> }

\* The values the pipeline keys of the environment configuration hold from
\* elsewhere.
EnvJarValues ==
    { <<"file:/b.jar">>, <<"file:///a.jar">>, <<>> }

\* Everything but the configurations.
nonConfVars == <<pathVars, elemVars, fsVars, pandasVars, inferVars, prev,
                 codecVars, concVars, createArgs, sessionOp>>

\* The caller sets or removes a pipeline key of the table config.
set_pipeline_option ==
    /\ pc = "idle"
    /\ \E key \in {JARS, CLASSPATHS} :
          \/ \E v \in TableJarValues : t_config' = setString(t_config, key, v)
          \/ t_config' = removeKey(t_config, key)
    /\ merged' = NoEntries
    /\ UNCHANGED <<pc, j_config, execOp, added, outcome, remoteLog, ncalls>>
    /\ UNCHANGED nonConfVars

\* The environment configuration gets a pipeline key from elsewhere, or
\* loses it.
set_env_pipeline_option ==
    /\ pc = "idle"
    /\ \E key \in {JARS, CLASSPATHS} :
          \/ \E v \in EnvJarValues : j_config' = setString(j_config, key, v)
          \/ j_config' = removeKey(j_config, key)
    /\ merged' = NoEntries
    /\ UNCHANGED <<pc, t_config, execOp, added, outcome, remoteLog, ncalls>>
    /\ UNCHANGED nonConfVars

\* What merged records after a merge of the key that left the entries urls.
Merged(key, urls) ==
    setString(merged, key,
              [urls |-> urls,
               n |-> IF containsKey(merged, key) THEN merged[key].n + 1 ELSE 1])

\* _add_jars_to_j_env_config, were the URLs kept in a list: the URLs of the
\* table config are put after the entries of the environment configuration.
_add_jars_to_j_env_config_appends(config_key, next) ==
    IF ~containsKey(t_config, config_key)
    THEN /\ pc' = next
         /\ UNCHANGED <<j_config, merged, outcome>>
    ELSE LET jar_urls == split(t_config[config_key], Semicolon)
         IN  IF \E i \in 1..Len(jar_urls) : MalformedURL(jar_urls[i])
             THEN /\ outcome' = "MalformedURLException"
                  /\ pc' = "ex_done"
                  /\ UNCHANGED <<j_config, merged>>
             ELSE LET urls == [i \in 1..Len(jar_urls) |-> URLtoString(jar_urls[i])]
                      old == IF containsKey(j_config, config_key)
                             THEN split(j_config[config_key], Semicolon)
                             ELSE <<>>
                  IN  /\ j_config' = setString(j_config, config_key,
                                               join(Semicolon, old \o urls))
                      /\ merged' = Merged(config_key, Range(old \o urls))
                      /\ pc' = next
                      /\ UNCHANGED outcome

\* Lines 1579-1589.  The order of the joined URLs is the iteration order of
\* a Python set, which is any order.
_add_jars_to_j_env_config(config_key, next) ==
    IF ~containsKey(t_config, config_key)
    THEN /\ pc' = next
         /\ UNCHANGED <<j_config, merged, outcome>>
    ELSE LET jar_urls == split(t_config[config_key], Semicolon)
         IN  IF \E i \in 1..Len(jar_urls) : MalformedURL(jar_urls[i])
             THEN /\ outcome' = "MalformedURLException"
                  /\ pc' = "ex_done"
                  /\ UNCHANGED <<j_config, merged>>
             ELSE LET normalized == {URLtoString(jar_urls[i]) : i \in 1..Len(jar_urls)}
                      jar_urls_set ==
                          IF containsKey(j_config, config_key)
                          THEN normalized
                                 \cup Range(split(j_config[config_key], Semicolon))
                          ELSE normalized
                  IN  /\ \E order \in Orders(jar_urls_set) :
                            j_config' = setString(j_config, config_key,
                                                  join(Semicolon, order))
                      /\ merged' = Merged(config_key, jar_urls_set)
                      /\ pc' = next
                      /\ UNCHANGED outcome

\* execute_sql, were the statement sent without _before_execute.
execute_sql_without_merge ==
    /\ pc = "idle"
    /\ ncalls < MaxCalls
    /\ ncalls' = ncalls + 1
    /\ execOp' = "executeSql"
    /\ outcome' = "running"
    /\ remoteLog' = <<>>
    /\ pc' = "ex_remote"
    /\ UNCHANGED <<t_config, j_config, merged, added>>
    /\ UNCHANGED nonConfVars

\* Lines 857-872: execute_sql(stmt) is called.
execute_sql ==
    /\ pc = "idle"
    /\ ncalls < MaxCalls
    /\ ncalls' = ncalls + 1
    /\ execOp' = "executeSql"
    /\ outcome' = "running"
    /\ remoteLog' = <<>>
    /\ pc' = "ex_jars"
    /\ UNCHANGED <<t_config, j_config, merged, added>>
    /\ UNCHANGED nonConfVars

\* Lines 1321-1347: execute(job_name) is called.
execute ==
    /\ pc = "idle"
    /\ ncalls < MaxCalls
    /\ ncalls' = ncalls + 1
    /\ execOp' = "execute"
    /\ outcome' = "running"
    /\ remoteLog' = <<>>
    /\ pc' = "ex_jars"
    /\ UNCHANGED <<t_config, j_config, merged, added>>
    /\ UNCHANGED nonConfVars

\* Line 1634: _before_execute merges the jars.
_before_execute_jars ==
    /\ pc = "ex_jars"
    /\ _add_jars_to_j_env_config(JARS, "ex_classpaths")
    /\ UNCHANGED <<t_config, execOp, added, remoteLog, ncalls>>
    /\ UNCHANGED nonConfVars

\* Line 1635: _before_execute merges the classpaths.
_before_execute_classpaths ==
    /\ pc = "ex_classpaths"
    /\ _add_jars_to_j_env_config(CLASSPATHS, "ex_remote")
    /\ UNCHANGED <<t_config, execOp, added, remoteLog, ncalls>>
    /\ UNCHANGED nonConfVars

\* Lines 872 and 1347: the remote executeSql or execute call, which returns
\* or raises.
execute_remote ==
    /\ pc = "ex_remote"
    /\ remoteLog' = Append(remoteLog, execOp)
    /\ \E ok \in BOOLEAN : outcome' = IF ok THEN "ok" ELSE "RemoteError"
    /\ pc' = "ex_done"
    /\ UNCHANGED <<t_config, j_config, execOp, merged, added, ncalls>>
    /\ UNCHANGED nonConfVars

\* The execute_sql or execute call returns or raises.
execute_returns ==
    /\ pc = "ex_done"
    /\ pc' = "idle"
    /\ execOp' = "none"
    /\ outcome' = "none"
    /\ remoteLog' = <<>>
    /\ UNCHANGED <<t_config, j_config, merged, added, ncalls>>
    /\ UNCHANGED nonConfVars

----------------------------------------------------------------------------
(* The construction of a TableEnvironment and the python dependencies.     *)

MaxAdds == 2

\* sys.executable.
sys_executable == <<"/usr/bin/python3">>

\* is_local_deployment(j_config): the target of the deployment is local.
is_local_deployment(conf) ==
    containsKey(conf, TARGET) /\ conf[TARGET] = <<"local">>

\* The environment configuration gets python.executable or the deployment
\* target from elsewhere, or loses it.
set_env_python_option ==
    /\ pc = "idle"
    /\ \/ \E v \in {<<"/opt/python">>} :
             j_config' = setString(j_config, PYTHON_EXECUTABLE, v)
       \/ \E v \in {<<"local">>, <<"remote">>} :
             j_config' = setString(j_config, TARGET, v)
       \/ \E key \in {PYTHON_EXECUTABLE, TARGET} :
             j_config' = removeKey(j_config, key)
    /\ UNCHANGED <<pc, t_config, execOp, merged, added, outcome, remoteLog,
                   ncalls>>
    /\ UNCHANGED nonConfVars

\* _set_python_executable_for_local_executor, were the key written whenever
\* the deployment is local.
_set_python_executable_for_local_executor_overwrites ==
    IF is_local_deployment(j_config)
    THEN j_config' = setString(j_config, PYTHON_EXECUTABLE, sys_executable)
    ELSE j_config' = j_config

\* Lines 1572-1577.
_set_python_executable_for_local_executor ==
    IF ~containsKey(j_config, PYTHON_EXECUTABLE) /\ is_local_deployment(j_config)
    THEN j_config' = setString(j_config, PYTHON_EXECUTABLE, sys_executable)
    ELSE j_config' = j_config

\* Lines 90-97: a TableEnvironment is constructed over the environment.
__init__ ==
    /\ pc = "idle"
    /\ _set_python_executable_for_local_executor
    /\ pc' = "constructed"
    /\ UNCHANGED <<t_config, execOp, merged, added, outcome, remoteLog, ncalls>>
    /\ UNCHANGED nonConfVars

\* The constructor returns.
__init__returns ==
    /\ pc = "constructed"
    /\ pc' = "idle"
    /\ UNCHANGED <<t_config, j_config, execOp, merged, added, outcome,
                   remoteLog, ncalls>>
    /\ UNCHANGED nonConfVars

\* The paths given to add_python_file and add_python_archive.
FilePaths == {<<"a.py">>, <<"b.py">>}
ArchivePaths == {<<"x.zip">>, <<"y.zip">>}

\* The target_dir argument: None, or a string, the empty string included.
NoTargetDir == [given |-> FALSE, dir |-> <<>>]
TargetDir(d) == [given |-> TRUE, dir |-> d]
TargetDirs == {NoTargetDir, TargetDir(<<"data">>), TargetDir(<<>>)}

\* add_python_file, were the new path joined after the old ones.
add_python_file_appends ==
    /\ pc = "idle"
    /\ Len(added.files) < MaxAdds
    /\ \E file_path \in FilePaths :
          LET python_files ==
                  IF containsKey(t_config, PYTHON_FILES)
                  THEN join(FILE_DELIMITER, <<t_config[PYTHON_FILES], file_path>>)
                  ELSE file_path
          IN  /\ t_config' = setString(t_config, PYTHON_FILES, python_files)
              /\ added' = [added EXCEPT !.files = Append(@, file_path)]
    /\ UNCHANGED <<pc, j_config, execOp, merged, outcome, remoteLog, ncalls>>
    /\ UNCHANGED nonConfVars

\* Lines 1192-1210.
add_python_file ==
    /\ pc = "idle"
    /\ Len(added.files) < MaxAdds
    /\ \E file_path \in FilePaths :
          LET python_files ==
                  IF containsKey(t_config, PYTHON_FILES)
                  THEN join(FILE_DELIMITER, <<file_path, t_config[PYTHON_FILES]>>)
                  ELSE file_path
          IN  /\ t_config' = setString(t_config, PYTHON_FILES, python_files)
              /\ added' = [added EXCEPT !.files = Append(@, file_path)]
    /\ UNCHANGED <<pc, j_config, execOp, merged, outcome, remoteLog, ncalls>>
    /\ UNCHANGED nonConfVars

\* Lines 1256-1319.
add_python_archive ==
    /\ pc = "idle"
    /\ Len(added.archives) < MaxAdds
    /\ \E path0 \in ArchivePaths, target_dir \in TargetDirs :
          LET archive_path ==
                  IF target_dir.given
                  THEN join(PARAM_DELIMITER, <<path0, target_dir.dir>>)
                  ELSE path0
              python_files ==
                  IF containsKey(t_config, PYTHON_ARCHIVES)
                  THEN join(FILE_DELIMITER,
                            <<t_config[PYTHON_ARCHIVES], archive_path>>)
                  ELSE archive_path
          IN  /\ t_config' = setString(t_config, PYTHON_ARCHIVES, python_files)
              /\ added' = [added EXCEPT !.archives =
                              Append(@, [path |-> path0, target_dir |-> target_dir])]
    /\ UNCHANGED <<pc, j_config, execOp, merged, outcome, remoteLog, ncalls>>
    /\ UNCHANGED nonConfVars

----------------------------------------------------------------------------
(* Specifications.                                                         *)

Init ==
    /\ pc = "idle"
    /\ curCatalog = <<"default_catalog">>
    /\ curDatabase = <<"default_database">>
    /\ path = <<>>
    /\ resolved = NoResult
    /\ input = <<>>
    /\ single_pass = FALSE
    /\ elements = <<>>
    /\ schema = NoSchema
    /\ verify_schema = TRUE
    /\ rowSchema = NoSchema
    /\ idx = 0
    /\ verified = {}
    /\ rows = <<>>
    /\ inferCalls = 0
    /\ verifierBuilt = FALSE
    /\ outcome = "none"
    /\ handed = NotHanded
    /\ tmpDirs = {}
    /\ tmpFiles = {}
    /\ openFiles = {}
    /\ written = {}
    /\ callDirs = {}
    /\ callFiles = {}
    /\ remoteLog = <<>>
    /\ ncalls = 0
    /\ pdfIsFrame = TRUE
    /\ pdfLen = 0
    /\ pdfCols = 0
    /\ pdSchema = NoSchema
    /\ splits_num = 1
    /\ result_type = NoSchema
    /\ slices = <<>>
    /\ acc = <<>>
    /\ seen = <<>>
    /\ nrecs = 0
    /\ prev = NoCall
    /\ serRows = <<>>
    /\ serArity = 0
    /\ batch_size = 1
    /\ serNext = 0
    /\ buffer = <<>>
    /\ sink = <<>>
    /\ readPos = 0
    /\ decoded = <<>>
    /\ cpc = [c \in Callers |-> "idle"]
    /\ crows = [c \in Callers |-> <<>>]
    /\ cname = [c \in Callers |-> 0]
    /\ disk = <<>>
    /\ cread = [c \in Callers |-> NotRead]
    /\ cout = [c \in Callers |-> "none"]
    /\ createArgs = NoArguments
    /\ sessionOp = NoSessionOp
    /\ t_config = NoEntries
    /\ j_config = NoEntries
    /\ execOp = "none"
    /\ merged = NoEntries
    /\ added = [files |-> <<>>, archives |-> <<>>]

Next ==
    \/ from_elements
    \/ from_elements_prepare
    \/ from_elements_verify
    \/ from_elements_convert
    \/ from_elements_hand
    \/ from_elements_create_temp
    \/ from_elements_serialize
    \/ from_elements_read
    \/ from_elements_table_source
    \/ from_elements_unlink
    \/ from_pandas
    \/ from_pandas_result_type
    \/ from_pandas_create_temp
    \/ from_pandas_slices
    \/ from_pandas_serialize
    \/ from_pandas_table_source
    \/ from_pandas_unlink
    \/ call_returns

Spec == Init /\ [][Next]_vars

NextRepeat ==
    \/ Next
    \/ from_elements_again

SpecRepeat == Init /\ [][NextRepeat]_vars

NextCodec ==
    \/ serialize
    \/ serialize_row
    \/ serialize_close
    \/ deserialize_batch
    \/ deserialize_returns

SpecCodec == Init /\ [][NextCodec]_vars

NextConcurrent ==
    \E c \in Callers :
        \/ call_enter(c)
        \/ call_create_temp(c)
        \/ call_serialize(c)
        \/ call_read(c)
        \/ call_unlink(c)

SpecConcurrent == Init /\ [][NextConcurrent]_vars

NextPath ==
    \/ from_path
    \/ use_catalog
    \/ use_database
    \/ from_path_returns
    \/ create
    \/ create_check
    \/ create_gateway
    \/ create_returns

SpecPath == Init /\ [][NextPath]_vars

NextConfig ==
    \/ set_pipeline_option
    \/ set_env_pipeline_option
    \/ execute_sql
    \/ execute
    \/ _before_execute_jars
    \/ _before_execute_classpaths
    \/ execute_remote
    \/ execute_returns

SpecConfig == Init /\ [][NextConfig]_vars

NextPython ==
    \/ set_env_python_option
    \/ __init__
    \/ __init__returns
    \/ add_python_file
    \/ add_python_archive

SpecPython == Init /\ [][NextPython]_vars

NextInfer ==
    \/ infer_feed
    \/ infer_returns

SpecInfer == Init /\ [][NextInfer]_vars

----------------------------------------------------------------------------
(* Properties.                                                             *)

\* C1: when a from_elements or from_pandas call has returned or raised, the
\* temporary directory and the temporary file it created are removed and the
\* file is closed.
C1_TempStorageReleased ==
    pc = "done" =>
        /\ callDirs \cap tmpDirs = {}
        /\ callFiles \cap tmpFiles = {}
        /\ callFiles \cap openFiles = {}

\* C2: if verification or conversion fails for an element, at whatever
\* index, the call raises with nothing passed to _from_elements: no
\* temporary storage was created and no remote call was made; and whenever
\* rows are passed to _from_elements, every element of the input passes
\* verification and conversion.
C2_FailedBatchNeverHanded ==
    /\ outcome \in {"ValidationError", "ConversionError"} =>
          /\ pc = "done"
          /\ handed = NotHanded
          /\ callDirs = {}
          /\ callFiles = {}
          /\ remoteLog = <<>>
    /\ handed.given =>
          \A i \in 1..Len(elements) :
              /\ verify_obj(schema, verify_schema, elements[i]).ok
              /\ RowToSqlType(rowSchema, elements[i]).ok

\* The second element fails verification after the first was converted.
C2_Witness ==
    /\ pc = "done"
    /\ outcome = "ValidationError"
    /\ Len(elements) = 2
    /\ Len(rows) = 1

\* C3: with a RowType or scalar DataType as schema, what from_elements
\* passes to _from_elements is the same with and without verify_schema: it
\* is, whatever the flag, the schema after the verifier setup and the
\* elements converted by it unchecked; and a call without verification stops
\* short of _from_elements only where a call with verification stops too (an
\* Expression among the elements, an element that does not convert).
C3_VerifyFlagOnlyElidesCheck ==
    LET sch == SchemaAfterVerifierSetup(schema)
        n == Len(elements)
        converts == \A i \in 1..n : RowToSqlType(sch, elements[i]).ok
        noExpr == \A i \in 1..n : ~IsExpression(elements[i])
    IN schema.kind \in {"row", "scalar"} =>
          /\ handed.given =>
                /\ converts
                /\ noExpr
                /\ handed = Handed([i \in 1..n |-> RowToSqlType(sch, elements[i]).row],
                                   sch)
          /\ (pc = "done" /\ ~verify_schema /\ converts /\ noExpr) => handed.given

\* A call without verification has passed on two rows that verification
\* would have accepted.
C3_Witness ==
    /\ schema.kind = "row"
    /\ ~verify_schema
    /\ handed.given
    /\ Len(handed.rows) = 2
    /\ \A i \in 1..2 : elements[i].kind = "tuple" /\ VerifyRow(schema, elements[i])

\* C7: with a RowType as schema no schema is inferred and no converter is
\* made, and with verify_schema set the verifier is built from the RowType
\* and every element has been passed to it before it is converted.
C7_RowTypeSkipsInferenceAndVerifiesFirst ==
    schema.kind = "row" =>
        /\ inferCalls = 0
        /\ (verify_schema /\ pc # "fe_prepare") =>
              /\ verifierBuilt
              /\ \A i \in 1..Len(rows) : i \in verified
              /\ pc = "fe_convert" => idx \in verified

\* The second element is about to be converted, after its verification.
C7_Witness ==
    /\ schema.kind = "row"
    /\ verify_schema
    /\ pc = "fe_convert"
    /\ idx = 2

\* An atomic value of the scalar type given as schema.
IsScalarOfSchema(obj) ==
    /\ obj.kind = "atom"
    /\ Accepts(schema.types[1], obj.vals[1])

\* C8: with a scalar DataType as schema the schema becomes a row of one
\* field named "value" of that type, and every element is the value of that
\* field: an element that is a value of the type is converted to the row
\* holding it, and is not rejected by the conversion.
C8_ScalarHintWrapsEachElement ==
    (schema.kind = "scalar" /\ pc # "fe_prepare") =>
        /\ rowSchema = RowType(<<"value">>, schema.types)
        /\ \A i \in 1..Len(rows) :
              IsScalarOfSchema(elements[i]) => rows[i] = elements[i].vals
        /\ outcome = "ConversionError" => ~IsScalarOfSchema(elements[idx])

----------------------------------------------------------------------------
(* Properties of path resolution.                                          *)

Ticks(p) == {i \in 1..Len(p) : p[i] = Tick}

Dots(p) == {i \in 1..Len(p) : p[i] = Dot}

\* The dots of p that are outside backticks.
TopLevelDots(p) ==
    {i \in Dots(p) : Cardinality({j \in Ticks(p) : j < i}) % 2 = 0}

\* An unescaped identifier: pieces that are neither dots nor backticks, and
\* not a keyword.
IsIdentifier(seg) ==
    /\ seg # <<>>
    /\ \A i \in 1..Len(seg) : seg[i] \notin {Dot, Tick}
    /\ ~(Len(seg) = 1 /\ seg[1] \in ReservedWords)

\* C4: against current catalog C and current database D, a path of one
\* identifier resolves to (C, D, it), a path of two identifiers db.obj to
\* (C, db, obj), and a path of three cat.db.obj to (cat, db, obj).
C4_ResolutionTable ==
    pc = "path_done" =>
        LET n == Len(path)
            seg(a, b) == SubSeq(path, a, b)
        IN /\ IsIdentifier(path) =>
                 resolved = Triple(curCatalog, curDatabase, path)
           /\ \A d \in Dots(path) :
                 (IsIdentifier(seg(1, d - 1)) /\ IsIdentifier(seg(d + 1, n))) =>
                     resolved = Triple(curCatalog, seg(1, d - 1), seg(d + 1, n))
           /\ \A d \in Dots(path), e \in Dots(path) :
                 (/\ d < e
                  /\ IsIdentifier(seg(1, d - 1))
                  /\ IsIdentifier(seg(d + 1, e - 1))
                  /\ IsIdentifier(seg(e + 1, n))) =>
                     resolved = Triple(seg(1, d - 1), seg(d + 1, e - 1), seg(e + 1, n))

\* db1.tab1 is resolved while cat1 is the current catalog.
C4_Witness ==
    /\ pc = "path_done"
    /\ path = <<"db1", Dot, "tab1">>
    /\ curCatalog = <<"cat1">>
    /\ resolved = Triple(<<"cat1">>, <<"db1">>, <<"tab1">>)

\* C5: a segment in backticks is one segment, taken as it is written, dots
\* and keywords included: a path that is one escaped segment resolves to
\* that text as the object, the path of the escaped segment a.b followed by
\* .c resolves to database a.b and object c in the current catalog, and the
\* three escaped segments cat.1, db and Table resolve to catalog cat.1,
\* database db and object Table.
C5_BacktickSegmentLiteral ==
    pc = "path_done" =>
        /\ (/\ Len(path) >= 3
            /\ Ticks(path) = {1, Len(path)}) =>
                resolved = Triple(curCatalog, curDatabase,
                                  SubSeq(path, 2, Len(path) - 1))
        /\ path = <<Tick, "a", Dot, "b", Tick, Dot, "c">> =>
                resolved = Triple(curCatalog, <<"a", Dot, "b">>, <<"c">>)
        /\ path = <<Tick, "cat", Dot, "1", Tick, Dot, Tick, "db", Tick, Dot,
                    Tick, "Table", Tick>> =>
                resolved = Triple(<<"cat", Dot, "1">>, <<"db">>, <<"Table">>)

\* The documented example with a dot and a keyword in backticks is resolved.
C5_Witness ==
    /\ pc = "path_done"
    /\ path = <<Tick, "cat", Dot, "1", Tick, Dot, Tick, "db", Tick, Dot,
                Tick, "Table", Tick>>
    /\ resolved.status = "ok"
    /\ resolved.object = <<"Table">>

\* C6: the empty path, a path of four or more segments (three or more dots
\* outside backticks) and a path with an unterminated backtick (an odd
\* number of backticks) fail with ParseError, and the object of a resolved
\* path is never empty.
C6_MalformedPathsRejected ==
    pc = "path_done" =>
        /\ path = <<>> => resolved = ParseError
        /\ Cardinality(TopLevelDots(path)) >= 3 => resolved = ParseError
        /\ Cardinality(Ticks(path)) % 2 = 1 => resolved = ParseError
        /\ resolved.status \in {"ok", "ParseError"}
        /\ resolved.status = "ok" => resolved.object # <<>>

\* A path of four segments has been refused.
C6_Witness ==
    /\ pc = "path_done"
    /\ path = <<"a", Dot, "a", Dot, "a", Dot, "a">>
    /\ resolved = ParseError

----------------------------------------------------------------------------
(* Properties of schema inference.                                         *)

\* The widening order boolean < integer < long < float < double; string and
\* bytes are comparable to themselves only.
Leq(a, b) ==
    \/ a = b
    \/ /\ a \in NumericTypes
       /\ b \in NumericTypes
       /\ Rank(a) <= Rank(b)

IsUpperBound(t, S) == \A x \in S : Leq(x, t)

IsJoin(t, S) ==
    /\ IsUpperBound(t, S)
    /\ \A u \in Types : IsUpperBound(u, S) => Leq(t, u)

HasJoin(S) == \E t \in Types : IsJoin(t, S)

----------------------------------------------------------------------------
(* Properties of from_elements with an inferred schema.                    *)

\* Two tuples among the elements differ in length.
MixedArity(es) ==
    \E i \in 1..Len(es), j \in 1..Len(es) :
        /\ es[i].kind = "tuple"
        /\ es[j].kind = "tuple"
        /\ Len(es[i].vals) # Len(es[j].vals)

UniformTuples(es, n) ==
    /\ es # <<>>
    /\ \A i \in 1..Len(es) : es[i].kind = "tuple" /\ Len(es[i].vals) = n

\* C12: when the schema is a list of names whose length is not the number
\* of columns of the data, the call fails with SchemaError (from_elements
\* over tuples of one arity, from_pandas over a DataFrame), and no schema is
\* ever built from names with fewer or more fields than the data has
\* columns.
C12_NamesLengthMismatchRejected ==
    /\ (/\ schema.kind = "names"
        /\ pc # "fe_prepare"
        /\ \E n \in 1..2 : n # Len(schema.names) /\ UniformTuples(elements, n)) =>
            /\ pc = "done"
            /\ outcome = "SchemaError"
            /\ rowSchema = NoSchema
    /\ (/\ pdSchema.kind = "names"
        /\ pc # "fp_schema"
        /\ Len(pdSchema.names) # pdfCols) =>
            /\ pc = "done"
            /\ outcome = "SchemaError"
            /\ result_type = NoSchema
    /\ (pdSchema.kind = "names" /\ result_type # NoSchema) =>
            Len(result_type.names) = pdfCols

----------------------------------------------------------------------------
(* Properties of the batch encoding.                                       *)

\* C14: whatever rows serialize was given, the empty list included, and
\* however they fell into batches, the rows read back from the sink by a
\* reader that knows the number of fields are the rows given, in their
\* order; the writer takes the rows one by one, and what it has written at
\* any time is the full batches of the rows taken so far.
C14_BatchRoundTrip ==
    /\ pc = "deserialized" => decoded = serRows
    /\ pc = "deserializing" =>
          /\ decoded = SubSeq(serRows, 1, Len(decoded))
          /\ Len(decoded) <= Len(serRows)
    /\ pc = "serializing" =>
          Len(sink) = (serNext - 1 - Len(buffer)) * serArity
                        + (serNext - 1 - Len(buffer)) \div batch_size

\* Three rows of two fields, written as a batch of two and a batch of one,
\* have been read back.
C14_Witness ==
    /\ pc = "deserialized"
    /\ Len(serRows) = 3
    /\ serArity = 2
    /\ batch_size = 2
    /\ decoded = serRows

----------------------------------------------------------------------------
(* Properties of concurrent calls.                                         *)

\* Caller c has a temporary file that it has not removed yet.
HoldsFile(c) == cpc[c] \in {"serialize", "read", "unlink"}

----------------------------------------------------------------------------
(* Properties of from_elements over Expressions.                           *)

\* C16: with a schema from_elements takes (None, names, a RowType or
\* another DataType), a non-empty list of Expressions is sent to the remote
\* fromValues and the call returns with no temporary file made, and a list
\* of Expressions and other elements raises ValueError with no remote call
\* made.
C16_ExpressionsAllOrNothing ==
    (schema.kind \in {"none", "names", "row", "scalar"} /\ pc # "fe_prepare") =>
        /\ (input # <<>> /\ \A i \in 1..Len(input) : IsExpression(input[i])) =>
              /\ pc = "done"
              /\ outcome = "ok"
              /\ remoteLog \in {<<"fromValues">>, <<"fromValues(data_type)">>}
              /\ callFiles = {}
        /\ (/\ \E i \in 1..Len(input) : IsExpression(input[i])
            /\ \E i \in 1..Len(input) : ~IsExpression(input[i])) =>
              /\ pc = "done"
              /\ outcome = "ValueError"
              /\ remoteLog = <<>>
              /\ callFiles = {}

----------------------------------------------------------------------------
(* Properties of StreamTableEnvironment.create.                            *)

\* The argument combinations create refuses.
Refused(a) ==
    \/ ~a.env /\ ~a.table_config /\ a.settings = "none"
    \/ a.settings = "none" /\ ~a.env /\ a.table_config
    \/ a.table_config /\ a.settings # "none"
    \/ a.settings = "batch"

\* C17 as stated: create raises ValueError exactly for the refused
\* combinations, and then before any gateway call; for every other
\* combination it returns the environment the gateway made (or passes on
\* the gateway's error).
C17_CreateChecksBeforeGateway ==
    pc = "created" =>
        /\ outcome = "ValueError" <=> Refused(createArgs)
        /\ outcome = "ValueError" => remoteLog = <<>>
        /\ ~Refused(createArgs) => outcome \in {"ok", "RemoteError"}

\* C17 amended: create raises ValueError exactly for the refused
\* combinations; before any gateway call where the arguments given decide
\* it (nothing given, table_config alone, table_config together with
\* environment_settings), and after the gateway has been obtained and
\* environment_settings has been asked for its mode where the settings are
\* not in streaming mode and table_config is not given.  For every other
\* combination it returns the environment the gateway made (or passes on the
\* gateway's error).
C17_CreateChecks ==
    pc = "created" =>
        /\ outcome = "ValueError" <=> Refused(createArgs)
        /\ (outcome = "ValueError"
              /\ ~(createArgs.settings = "batch" /\ ~createArgs.table_config)) =>
                 remoteLog = <<>>
        /\ (createArgs.settings = "batch" /\ ~createArgs.table_config) =>
                 remoteLog = <<"get_gateway", "isStreamingMode">>
        /\ ~Refused(createArgs) =>
              /\ outcome \in {"ok", "RemoteError"}
              /\ Len(remoteLog) >= 2

\* create was called with batch settings alone and has raised.
C17_Witness ==
    /\ pc = "created"
    /\ createArgs = Arguments(FALSE, FALSE, "batch")
    /\ outcome = "ValueError"

----------------------------------------------------------------------------
(* Properties of from_pandas.                                              *)

\* C18: for a DataFrame of any number of rows and any splits_num >= 1,
\* from_pandas cuts the DataFrame into splits_num slices: once lines
\* 1552-1554 have run, the slices to serialize are splits_num in number.
C18_SlicesEqualSplitsNum ==
    (/\ pdSchema # NoSchema
     /\ pdfIsFrame
     /\ splits_num >= 1
     /\ pc \in {"fp_serialize", "fp_source", "fp_unlink"}) =>
        Len(slices) = splits_num

----------------------------------------------------------------------------
(* Properties of the session's current catalog and database.               *)

\* C19: whatever use_catalog and use_database calls came before, after a
\* successful use_catalog(c), and until the next use_catalog or
\* use_database call, the current catalog is c and the current database is
\* the default database of c, whichever database was current before; and a
\* path of one identifier resolves to that catalog, that database and the
\* identifier.
C19_UseCatalogResetsDatabase ==
    (sessionOp.op = "use_catalog" /\ sessionOp.ok) =>
        /\ curCatalog = sessionOp.arg
        /\ curDatabase = DefaultDatabaseOf(sessionOp.arg)
        /\ (pc = "path_done" /\ IsIdentifier(path)) =>
              resolved = Triple(sessionOp.arg, DefaultDatabaseOf(sessionOp.arg), path)

\* With db1 selected in default_catalog, use_catalog("default_catalog") was
\* called and tab1 was then resolved in default_database.
C19_Witness ==
    /\ sessionOp = SessionOp("use_catalog", <<"default_catalog">>, <<"db1">>, TRUE)
    /\ pc = "path_done"
    /\ path = <<"tab1">>
    /\ resolved = Triple(<<"default_catalog">>, <<"default_database">>, <<"tab1">>)

----------------------------------------------------------------------------
(* Properties of from_elements over any Iterable.                          *)

\* C20: with schema None or a list of names, whatever Iterable the elements
\* are given as, an iterator that can be consumed only once included, the
\* rows passed to _from_elements are the converted elements, one row per
\* element of the input and in the input's order.
C20_OneRowPerElement ==
    (schema.kind \in {"none", "names"} /\ handed.given) =>
        /\ Len(handed.rows) = Len(input)
        /\ \A i \in 1..Len(input) :
              handed.rows[i] = RowToSqlType(rowSchema, Converter(input[i])).row

----------------------------------------------------------------------------
(* Properties of the order of events in _from_elements.                    *)

\* The file of the call in progress is on disk, completely written and
\* closed.
FileReadable ==
    /\ callFiles # {}
    /\ callFiles \subseteq tmpFiles
    /\ callFiles \subseteq written
    /\ callFiles \cap openFiles = {}

----------------------------------------------------------------------------
(* Properties of execute_sql, execute and the merge of the pipeline keys.  *)

\* The entries of the ';'-joined value of the key.
Entries(conf, key) == Range(split(conf[key], Semicolon))

\* The URLs of the table config's value of the key, in normal form.
NormalizedURLs(key) == {URLtoString(u) : u \in Entries(t_config, key)}

\* The configuration of the environment holds the merge of the key.
HoldsMerge(key) ==
    containsKey(t_config, key) =>
        /\ containsKey(j_config, key)
        /\ NormalizedURLs(key) \subseteq Entries(j_config, key)

\* C22: in every execute_sql and execute call the remote executeSql or
\* execute call is issued once, with the jars and the classpaths of the
\* table config already merged into the configuration of the environment;
\* when a merge has raised no remote call is issued.
C22_MergeBeforeRemoteExecution ==
    /\ [](outcome = "MalformedURLException" => remoteLog = <<>>)
    /\ [][(execOp # "none" /\ Len(remoteLog') > Len(remoteLog)) =>
              /\ remoteLog' = <<execOp>>
              /\ HoldsMerge(JARS)
              /\ HoldsMerge(CLASSPATHS)]_vars

\* A statement has been sent with both keys of the table config merged.
C22_Witness ==
    /\ pc = "ex_done"
    /\ remoteLog = <<"executeSql">>
    /\ containsKey(t_config, JARS)
    /\ containsKey(t_config, CLASSPATHS)
    /\ containsKey(merged, JARS)
    /\ containsKey(merged, CLASSPATHS)

\* The step is a call of _add_jars_to_j_env_config(key) that returns.
MergeReturns(key) ==
    \/ key = JARS /\ pc = "ex_jars" /\ pc' = "ex_classpaths"
    \/ key = CLASSPATHS /\ pc = "ex_classpaths" /\ pc' = "ex_remote"

----------------------------------------------------------------------------
(* Properties of the constructor and of the python dependencies.           *)

\* C24: the construction of a TableEnvironment leaves the configuration of
\* the environment as it is when python.executable is present or the
\* deployment is not local, and otherwise adds python.executable with the
\* value sys.executable and changes nothing else.
C24_ConstructorKeepsPythonExecutable ==
    [][(pc = "idle" /\ pc' = "constructed") =>
          IF ~containsKey(j_config, PYTHON_EXECUTABLE)
               /\ is_local_deployment(j_config)
          THEN /\ containsKey(j_config', PYTHON_EXECUTABLE)
               /\ j_config'[PYTHON_EXECUTABLE] = sys_executable
               /\ removeKey(j_config', PYTHON_EXECUTABLE) = j_config
          ELSE j_config' = j_config]_vars

\* An environment has been constructed over a local deployment whose
\* configuration names a python executable of its own.
C24_Witness ==
    /\ pc = "constructed"
    /\ is_local_deployment(j_config)
    /\ containsKey(j_config, PYTHON_EXECUTABLE)
    /\ j_config[PYTHON_EXECUTABLE] = <<"/opt/python">>

Reverse(seq) == [i \in 1..Len(seq) |-> seq[Len(seq) + 1 - i]]

\* The entry of the archives value that an add_python_archive call gives.
ArchiveEntry(a) ==
    IF a.target_dir.given
    THEN a.path \o <<PARAM_DELIMITER>> \o a.target_dir.dir
    ELSE a.path

RECURSIVE Joined(_)
Joined(entries) ==
    IF Len(entries) = 1 THEN entries[1]
    ELSE entries[1] \o <<FILE_DELIMITER>> \o Joined(Tail(entries))

\* C25: after add_python_file(f1), ..., add_python_file(fn) the python
\* files value is fn, ..., f1 joined by the file delimiter, and after
\* add_python_archive(a1), ..., add_python_archive(an) the archives value
\* is the entries of a1, ..., an in that order joined by the file delimiter,
\* an entry being the path, followed by the param delimiter and target_dir
\* when target_dir is given; a key with no call has no value.
C25_FilesNewestFirstArchivesOldestFirst ==
    /\ IF added.files = <<>>
       THEN ~containsKey(t_config, PYTHON_FILES)
       ELSE /\ containsKey(t_config, PYTHON_FILES)
            /\ t_config[PYTHON_FILES] = Joined(Reverse(added.files))
    /\ IF added.archives = <<>>
       THEN ~containsKey(t_config, PYTHON_ARCHIVES)
       ELSE /\ containsKey(t_config, PYTHON_ARCHIVES)
            /\ t_config[PYTHON_ARCHIVES] =
                  Joined([i \in 1..Len(added.archives) |->
                             ArchiveEntry(added.archives[i])])

\* Two different files and two archives, the second with a target_dir,
\* have been added.
C25_Witness ==
    /\ added.files = <<<<"a.py">>, <<"b.py">>>>
    /\ Len(added.archives) = 2
    /\ added.archives[1] = [path |-> <<"x.zip">>, target_dir |-> NoTargetDir]
    /\ added.archives[2] = [path |-> <<"y.zip">>, target_dir |-> TargetDir(<<"data">>)]

----------------------------------------------------------------------------
(* Properties of the schema check of from_elements.                        *)

\* C26: a schema argument that is not None, a list, a tuple, a RowType or
\* another DataType makes from_elements raise TypeError with no element
\* consumed, no schema inferred, nothing verified, no temporary file made
\* and no remote call made; past that check the schema is a RowType, so
\* the remote fromValues is only ever called with a data type.
C26_SchemaCheckedBeforeElementsAndRemoteCalls ==
    /\ (schema.kind = "other" /\ pc # "fe_prepare") =>
          /\ pc = "done"
          /\ outcome = "TypeError"
          /\ elements = input
          /\ inferCalls = 0
          /\ verified = {}
          /\ rows = <<>>
          /\ handed = NotHanded
          /\ callFiles = {}
          /\ remoteLog = <<>>
    /\ (pc \in {"fe_verify", "fe_convert", "fe_hand", "fe_temp", "fe_serialize",
                "fe_read", "fe_source", "fe_unlink"}) => rowSchema.kind = "row"
    /\ \A i \in 1..Len(remoteLog) :
          /\ remoteLog[i] # "fromValues"
          /\ remoteLog[i] = "fromValues(data_type)" => rowSchema.kind = "row"

\* A call with a schema that is none of these, over an iterator of two
\* elements, has raised TypeError with the iterator untouched.
C26_Witness ==
    /\ pc = "done"
    /\ outcome = "TypeError"
    /\ schema.kind = "other"
    /\ single_pass
    /\ Len(input) = 2
    /\ elements = input
    /\ remoteLog = <<>>

----------------------------------------------------------------------------
(* Properties of verify_schema where the schema is inferred.               *)

\* C27: when the schema argument of from_elements is None or a list of
\* field names, no verifier is built and no element is verified, whatever
\* verify_schema is, and a call that repeats the call before it with equal
\* elements and schema and the other value of verify_schema infers the same
\* schema, converts to the same rows and passes on or fails as that call
\* did.
C27_VerifyFlagIgnoredWhenSchemaInferred ==
    schema.kind \in {"none", "names"} =>
        /\ ~verifierBuilt
        /\ verified = {}
        /\ (/\ prev.set
            /\ pc = "done"
            /\ input = prev.input
            /\ single_pass = prev.single_pass
            /\ schema = prev.schema) =>
               /\ rowSchema = prev.rowSchema
               /\ rows = prev.rows
               /\ handed = prev.handed
               /\ (outcome \in LocalErrors \/ prev.outcome \in LocalErrors) =>
                     outcome = prev.outcome

\* A call with field names and verify_schema set that converted two rows
\* has been repeated with verify_schema not set.
C27_Witness ==
    /\ prev.set
    /\ pc = "done"
    /\ schema.kind = "names"
    /\ prev.verify_schema
    /\ ~verify_schema
    /\ handed.given
    /\ Len(handed.rows) = 2
    /\ handed = prev.handed

====
